---- MODULE Spec2Model ----
(***************************************************************************)
(* The index advisor of src/conversion-tools/create-performance-indexes.py *)
(* (class IndexAnalyzer and main).                                         *)
(*                                                                         *)
(* Text is modelled as sequences of one-character strings, so that the     *)
(* substring tests, the lower-casing and the concatenations of the code    *)
(* are computed character by character.  priority_score is kept in halves  *)
(* (the multipliers of the code are 2.0, 1.5 and 0.5), selectivity in      *)
(* millionths.                                                             *)
(***************************************************************************)
EXTENDS Integers, Sequences, FiniteSets, TLC

VARIABLES
    catalog,          \* the database's live index catalog (pg_indexes)
    metadata_rows,    \* rows of the metadata query (get_table_metadata)
    query_patterns,   \* rows of the workload query (analyze_query_patterns)
    args,             \* the parsed command line of main
    run,              \* number of the current process run
    pc,               \* position of main in the current run
    autocommit,       \* connection.autocommit
    tx_status,        \* transaction status of the connection
    suggestions,      \* main's suggestions
    created_indexes,  \* create_indexes' created list / main's created_indexes
    batch,            \* suggestions[:max_indexes], the list create_indexes walks
    cur,              \* position of create_indexes' loop in batch
    cstate,           \* per position of batch: state of that candidate
    statements,       \* statements sent on the connection, with the status at issue
    log,              \* the logger's records of the creation phase
    report,           \* the report files written by the run
    exit_status,      \* exit status of the run ("running" before it ends)
    prev_runs,        \* per finished run: its suggestions, created list, states
    index_stats,      \* rows of pg_stat_user_indexes (scans, tuples read, fetched)
    effectiveness_df, \* generate_report's effectiveness_df
    others            \* schema and name of the indexes other sessions created in the run

vars ==
    <<catalog, metadata_rows, query_patterns, args, run, pc, autocommit,
      tx_status, suggestions, created_indexes, batch, cur, cstate, statements,
      log, report, exit_status, prev_runs, index_stats, effectiveness_df, others>>

(***************************************************************************)
(* Text                                                                    *)
(***************************************************************************)
s_rds ==
    <<"r","d","s">>
s_staging ==
    <<"s","t","a","g","i","n","g">>
s_ceds ==
    <<"c","e","d","s">>
t_fact_k12_student_enrollments ==
    <<"f","a","c","t","_","k","1","2","_","s","t","u","d","e","n","t","_",
      "e","n","r","o","l","l","m","e","n","t","s">>
t_k12_enrollment ==
    <<"k","1","2","_","e","n","r","o","l","l","m","e","n","t">>
c_school_year_id ==
    <<"s","c","h","o","o","l","_","y","e","a","r","_","i","d">>
c_dim_k12_school_id ==
    <<"d","i","m","_","k","1","2","_","s","c","h","o","o","l","_","i","d">>
c_dim_grade_level_id ==
    <<"d","i","m","_","g","r","a","d","e","_","l","e","v","e","l","_","i","d">>
c_dim_lea_id ==
    <<"d","i","m","_","l","e","a","_","i","d">>
c_school_year ==
    <<"s","c","h","o","o","l","_","y","e","a","r">>
c_student_identifier_state ==
    <<"s","t","u","d","e","n","t","_","i","d","e","n","t","i","f","i","e","r",
      "_","s","t","a","t","e">>
c_school_identifier_state ==
    <<"s","c","h","o","o","l","_","i","d","e","n","t","i","f","i","e","r","_",
      "s","t","a","t","e">>
c_DimLeaId ==
    <<"D","i","m","L","e","a","I","d">>

Dot ==
    <<".">>
Underscore ==
    <<"_">>
CommaSpace ==
    <<",", " ">>

\* str.lower() on one character
LowerChar(c) ==
    CASE c = "A" -> "a" [] c = "B" -> "b" [] c = "C" -> "c" [] c = "D" -> "d"
      [] c = "E" -> "e" [] c = "F" -> "f" [] c = "G" -> "g" [] c = "H" -> "h"
      [] c = "I" -> "i" [] c = "J" -> "j" [] c = "K" -> "k" [] c = "L" -> "l"
      [] c = "M" -> "m" [] c = "N" -> "n" [] c = "O" -> "o" [] c = "P" -> "p"
      [] c = "Q" -> "q" [] c = "R" -> "r" [] c = "S" -> "s" [] c = "T" -> "t"
      [] c = "U" -> "u" [] c = "V" -> "v" [] c = "W" -> "w" [] c = "X" -> "x"
      [] c = "Y" -> "y" [] c = "Z" -> "z" [] OTHER -> c

\* str.lower()
Lower(s) ==
    [k \in 1..Len(s) |-> LowerChar(s[k])]

\* the characters of an identifier
IdentChar(c) ==
    c \in {"a","b","c","d","e","f","g","h","i","j","k","l","m","n","o","p","q","r",
           "s","t","u","v","w","x","y","z","A","B","C","D","E","F","G","H","I","J",
           "K","L","M","N","O","P","Q","R","S","T","U","V","W","X","Y","Z",
           "0","1","2","3","4","5","6","7","8","9","_"}

\* [a-zA-Z_][a-zA-Z0-9_]*
IsIdent(s) ==
    /\ s # <<>>
    /\ \A k \in 1..Len(s) : IdentChar(s[k])
    /\ s[1] \notin {"0","1","2","3","4","5","6","7","8","9"}

\* Python's `needle in hay` on strings
Contains(hay, needle) ==
    \E i \in 0..(Len(hay) - Len(needle)) :
        \A j \in 1..Len(needle) : hay[i + j] = needle[j]

\* hay.endswith(needle)
EndsWith(hay, needle) ==
    /\ Len(needle) <= Len(hay)
    /\ SubSeq(hay, Len(hay) - Len(needle) + 1, Len(hay)) = needle

\* sep.join(parts)
RECURSIVE Join(_, _)
Join(parts, sep) ==
    IF parts = <<>> THEN <<>>
    ELSE IF Len(parts) = 1 THEN parts[1]
    ELSE parts[1] \o sep \o Join(Tail(parts), sep)

\* s.split('.', 1): the parts before and after the first dot
SplitFirstDot(s) ==
    LET i == CHOOSE k \in 1..Len(s) : s[k] = "." /\ \A j \in 1..(k - 1) : s[j] # "."
    IN  <<SubSeq(s, 1, i - 1), SubSeq(s, i + 1, Len(s))>>

\* s.rsplit('.', 1): the parts before and after the last dot
RSplitLastDot(s) ==
    LET i == CHOOSE k \in 1..Len(s) : s[k] = "." /\ \A j \in (k + 1)..Len(s) : s[j] # "."
    IN  <<SubSeq(s, 1, i - 1), SubSeq(s, i + 1, Len(s))>>

\* a descending sort that puts equal keys in the reverse of their order
SortDescTiesReversed(s, key) ==
    LET rank(i) ==
            1 + Cardinality({j \in 1..Len(s) :
                                \/ key[j] > key[i]
                                \/ (key[j] = key[i] /\ j > i)})
    IN  [r \in 1..Len(s) |-> s[CHOOSE i \in 1..Len(s) : rank(i) = r]]

\* list.sort(key=..., reverse=True) / sorted(..., reverse=True): stable,
\* equal keys keep their original order.  key[i] is the key of s[i].
StableSortDesc(s, key) ==
    LET rank(i) ==
            1 + Cardinality({j \in 1..Len(s) :
                                \/ key[j] > key[i]
                                \/ (key[j] = key[i] /\ j < i)})
    IN  [r \in 1..Len(s) |-> s[CHOOSE i \in 1..Len(s) : rank(i) = r]]

Min(a, b) ==
    IF a <= b THEN a ELSE b

\* elements of a sequence
Range(s) ==
    {s[k] : k \in 1..Len(s)}

(***************************************************************************)
(* The catalog and the three reads of the analysis                         *)
(***************************************************************************)
\* WHERE schemaname IN ('rds', 'staging', 'ceds')
AnalyzedSchemas ==
    {s_rds, s_staging, s_ceds}

\* identifiers as pg_indexes.indexdef prints them: quoted unless lower case
QuoteIdent(name) ==
    IF Lower(name) = name THEN name ELSE <<"\"">> \o name \o <<"\"">>

\* pg_indexes.indexdef of a catalog entry
\* [schemaname, tablename, indexname, columns]
IndexDef(ix) ==
    <<"C","R","E","A","T","E"," ","I","N","D","E","X"," ">>
        \o QuoteIdent(ix.indexname)
        \o <<" ","O","N"," ">>
        \o QuoteIdent(ix.schemaname) \o Dot \o QuoteIdent(ix.tablename)
        \o <<" ","U","S","I","N","G"," ","b","t","r","e","e"," ","(">>
        \o Join([k \in 1..Len(ix.columns) |-> QuoteIdent(ix.columns[k])], CommaSpace)
        \o <<")">>

\* f"{schema}.{table}"
TableKey(schema, table) ==
    schema \o Dot \o table

\* get_existing_indexes: the snapshot, one entry per index of an analyzed
\* schema, under its table key
get_existing_indexes(cat) ==
    {[table |-> TableKey(ix.schemaname, ix.tablename),
      name |-> ix.indexname,
      definition |-> IndexDef(ix)] : ix \in {x \in cat : x.schemaname \in AnalyzedSchemas}}

\* _calculate_selectivity, in millionths.  n_distinct is [kind |-> "null"],
\* [kind |-> "negative", millionths |-> m] for the value -m/1000000, or
\* [kind |-> "count", n |-> n] for the value n >= 0
calculate_selectivity(n_distinct) ==
    IF n_distinct.kind = "null" THEN 500000
    ELSE IF n_distinct.kind = "negative" THEN n_distinct.millionths
    ELSE Min(n_distinct.n, 1000000)

\* keys of table_metadata, in the order the rows first name them
table_metadata_keys(rows) ==
    LET key(k) == TableKey(rows[k].table_schema, rows[k].table_name)
        RECURSIVE pick(_)
        pick(k) ==
            IF k > Len(rows) THEN <<>>
            ELSE (IF \A j \in 1..(k - 1) : key(j) # key(k) THEN <<key(k)>> ELSE <<>>)
                    \o pick(k + 1)
    IN  pick(1)

\* the rows of one table, in order
table_rows(rows, table) ==
    SelectSeq(rows, LAMBDA r : TableKey(r.table_schema, r.table_name) = table)

\* table_metadata[table]['columns'][column]: the last row of the column wins
column_info(rows, table, column) ==
    LET of_column == SelectSeq(table_rows(rows, table), LAMBDA r : r.column_name = column)
        row == of_column[Len(of_column)]
    IN  [column_type |-> row.column_type,
         n_distinct |-> row.n_distinct,
         selectivity |-> calculate_selectivity(row.n_distinct)]

\* set(table_metadata[table]['columns'])
table_columns_of(rows, table) ==
    {r.column_name : r \in Range(table_rows(rows, table))}

\* table_metadata[table]['primary_keys']
primary_keys(rows, table) ==
    LET picked == SelectSeq(table_rows(rows, table), LAMBDA r : r.column_type = "PRIMARY KEY")
    IN  [k \in 1..Len(picked) |-> picked[k].column_name]

\* table_metadata[table]['foreign_keys']
foreign_keys(rows, table) ==
    LET picked == SelectSeq(table_rows(rows, table), LAMBDA r : r.column_type = "FOREIGN KEY")
    IN  [k \in 1..Len(picked) |-> picked[k].column_name]

(***************************************************************************)
(* extract_table_columns_from_query.  A query text is the sequence of its   *)
(* words: the text is the words joined by white space, which the function   *)
(* normalises to single spaces; a word is a keyword, a table or column      *)
(* reference (name or name.name), an operator, a comma or a literal.        *)
(***************************************************************************)
w_select ==
    <<"s","e","l","e","c","t">>
w_star ==
    <<"*">>
w_from ==
    <<"f","r","o","m">>
w_join ==
    <<"j","o","i","n">>
w_where ==
    <<"w","h","e","r","e">>
w_and ==
    <<"a","n","d">>
w_group ==
    <<"g","r","o","u","p">>
w_order ==
    <<"o","r","d","e","r">>
w_by ==
    <<"b","y">>
w_limit ==
    <<"l","i","m","i","t">>
w_having ==
    <<"h","a","v","i","n","g">>
w_union ==
    <<"u","n","i","o","n">>
w_comma ==
    <<",">>
w_eq ==
    <<"=">>
w_ge ==
    <<">","=">>
w_lt ==
    <<"<">>
w_param ==
    <<"$","1">>

\* query.lower()
normalize_query(query) ==
    [k \in 1..Len(query) |-> Lower(query[k])]

\* a word that [a-zA-Z_][a-zA-Z0-9_]*(?:\.[a-zA-Z_][a-zA-Z0-9_]*)? matches whole
IsRef(word) ==
    LET dots == {k \in 1..Len(word) : word[k] = "."}
    IN  IF dots = {} THEN IsIdent(word)
        ELSE /\ Cardinality(dots) = 1
             /\ IsIdent(SplitFirstDot(word)[1])
             /\ IsIdent(SplitFirstDot(word)[2])

\* the positions 1..n in order, for re.finditer to pick its matches from
Positions(n) ==
    [i \in 1..n |-> i]

\* the table names that follow a keyword (\bfrom\s+... and \bjoin\s+...),
\* kept when qualified with one of the schemas 'rds', 'staging', 'ceds'
table_names_after(words, keyword) ==
    LET at == SelectSeq(Positions(Len(words) - 1), LAMBDA i :
                  /\ words[i] = keyword
                  /\ IsRef(words[i + 1])
                  /\ \E k \in 1..Len(words[i + 1]) : words[i + 1][k] = "."
                  /\ SplitFirstDot(words[i + 1])[1] \in AnalyzedSchemas)
    IN  [k \in 1..Len(at) |-> words[at[k] + 1]]

\* table_columns[table_name] = set(), for the names in order; table_columns
\* is kept as the sequence of its items [table, columns] in insertion order
RECURSIVE add_tables(_, _)
add_tables(table_columns, names) ==
    IF names = <<>> THEN table_columns
    ELSE LET name == Head(names)
             next == IF \E k \in 1..Len(table_columns) : table_columns[k].table = name
                     THEN [k \in 1..Len(table_columns) |->
                              IF table_columns[k].table = name
                              THEN [table_columns[k] EXCEPT !.columns = <<>>]
                              ELSE table_columns[k]]
                     ELSE Append(table_columns, [table |-> name, columns |-> <<>>])
         IN  add_tables(next, Tail(names))

\* a word at which the WHERE clause ends: group by, order by, limit, having,
\* union
ClauseEndsAt(words, j) ==
    \/ words[j] \in {w_limit, w_having, w_union}
    \/ /\ words[j] \in {w_group, w_order}
       /\ j < Len(words)
       /\ words[j + 1] = w_by

\* the WHERE clauses: each runs from the word after 'where' (at least one
\* character of it) to the next word that ends it, or to the end of the text
RECURSIVE where_clauses(_, _)
where_clauses(words, i) ==
    IF i >= Len(words) THEN <<>>
    ELSE IF words[i] # w_where THEN where_clauses(words, i + 1)
    ELSE LET ends == {j \in (i + 2)..Len(words) : ClauseEndsAt(words, j)}
             end == IF ends = {} THEN Len(words) + 1
                    ELSE CHOOSE j \in ends : \A x \in ends : j <= x
         IN  <<SubSeq(words, i + 1, end - 1)>> \o where_clauses(words, end)

\* the column references of a clause: \b(name(.name)?)\s*[=<>!]
condition_refs(clause) ==
    LET at == SelectSeq(Positions(Len(clause) - 1), LAMBDA i :
                  /\ IsRef(clause[i])
                  /\ clause[i + 1][1] \in {"=", "<", ">", "!"})
    IN  [k \in 1..Len(at) |-> clause[at[k]]]

\* the words of the ORDER BY lists: order\s+by\s+([^;\s]+(?:\s*,\s*[^;\s]+)*)
RECURSIVE order_by_list(_, _)
order_by_list(words, i) ==
    IF i > Len(words) THEN <<>>
    ELSE <<words[i]>>
            \o (IF i + 2 <= Len(words) /\ words[i + 1] = w_comma
                THEN order_by_list(words, i + 2)
                ELSE <<>>)

RECURSIVE order_by_refs(_, _)
order_by_refs(words, i) ==
    IF i + 2 > Len(words) THEN <<>>
    ELSE IF words[i] = w_order /\ words[i + 1] = w_by
         THEN LET list == order_by_list(words, i + 2)
              IN  SelectSeq(list, IsRef) \o order_by_refs(words, i + 1 + Len(list))
         ELSE order_by_refs(words, i + 1)

\* set.add
set_add(columns, column) ==
    IF column \in Range(columns) THEN columns ELSE Append(columns, column)

\* _extract_columns_from_conditions and _extract_columns_from_order_by, for
\* the references in order: a reference alias.column goes to the tables
\* whose name ends with, or contains, the alias; a plain column to all tables
RECURSIVE add_column_refs(_, _)
add_column_refs(table_columns, refs) ==
    IF refs = <<>> THEN table_columns
    ELSE LET column_ref == Head(refs)
             dotted == \E k \in 1..Len(column_ref) : column_ref[k] = "."
             next == [k \in 1..Len(table_columns) |->
                         LET table_name == table_columns[k].table
                         IN  IF ~dotted
                             THEN [table_columns[k] EXCEPT
                                      !.columns = set_add(@, column_ref)]
                             ELSE IF \/ EndsWith(table_name, RSplitLastDot(column_ref)[1])
                                     \/ Contains(table_name, RSplitLastDot(column_ref)[1])
                             THEN [table_columns[k] EXCEPT
                                      !.columns = set_add(@, RSplitLastDot(column_ref)[2])]
                             ELSE table_columns[k]]
         IN  add_column_refs(next, Tail(refs))

\* the concatenation of sequences
RECURSIVE Flatten(_)
Flatten(seqs) ==
    IF seqs = <<>> THEN <<>> ELSE Head(seqs) \o Flatten(Tail(seqs))

\* extract_table_columns_from_query: the tables after FROM, then after JOIN;
\* the references of the WHERE clauses, then of the ORDER BY lists
extract_table_columns_from_query(query) ==
    LET words == normalize_query(query)
        clauses == where_clauses(words, 1)
    IN  add_column_refs(
            add_tables(<<>>, table_names_after(words, w_from)
                                 \o table_names_after(words, w_join)),
            Flatten([k \in 1..Len(clauses) |-> condition_refs(clauses[k])])
                \o order_by_refs(words, 1))

(***************************************************************************)
(* generate_index_suggestions                                              *)
(***************************************************************************)
\* the accumulation that keeps the last weight of a key instead of the sum
RECURSIVE add_usage_overwrite(_, _, _)
add_usage_overwrite(usage, keys, weight) ==
    IF keys = <<>> THEN usage
    ELSE LET hit == {k \in 1..Len(usage) : usage[k].key = Head(keys)}
             next == IF hit = {}
                     THEN Append(usage, [key |-> Head(keys), weight |-> weight])
                     ELSE [k \in 1..Len(usage) |->
                              IF k \in hit
                              THEN [usage[k] EXCEPT !.weight = weight]
                              ELSE usage[k]]
         IN  add_usage_overwrite(next, Tail(keys), weight)

\* column_usage[f"{table}.{column}"] += weight, for the keys in order;
\* column_usage is kept as the sequence of its items in insertion order
RECURSIVE add_usage(_, _, _)
add_usage(usage, keys, weight) ==
    IF keys = <<>> THEN usage
    ELSE LET hit == {k \in 1..Len(usage) : usage[k].key = Head(keys)}
             next == IF hit = {}
                     THEN Append(usage, [key |-> Head(keys), weight |-> weight])
                     ELSE [k \in 1..Len(usage) |->
                              IF k \in hit
                              THEN [usage[k] EXCEPT !.weight = @ + weight]
                              ELSE usage[k]]
         IN  add_usage(next, Tail(keys), weight)

\* the keys one query adds to: for table, columns in table_columns.items(),
\* for column in columns
RECURSIVE usage_keys(_)
usage_keys(table_columns) ==
    IF table_columns = <<>> THEN <<>>
    ELSE LET tc == Head(table_columns)
         IN  [k \in 1..Len(tc.columns) |-> tc.table \o Dot \o tc.columns[k]]
                \o usage_keys(Tail(table_columns))

\* the loop over query_patterns
RECURSIVE column_usage(_, _)
column_usage(usage, queries) ==
    IF queries = <<>> THEN usage
    ELSE column_usage(
             add_usage(usage,
                       usage_keys(extract_table_columns_from_query(Head(queries).query)),
                       Head(queries).calls * Head(queries).mean_time),
             Tail(queries))

\* _column_already_indexed
TestColumnInDefinition(column, definition) ==
    Contains(Lower(definition), column)

column_already_indexed(table, column, existing_indexes) ==
    \E index \in existing_indexes :
        index.table = table /\ TestColumnInDefinition(column, index.definition)

\* f"idx_{table_name}_{column}" with schema, table_name = table.split('.', 1)
single_index_name(table, column) ==
    <<"i","d","x","_">> \o SplitFirstDot(table)[2] \o Underscore \o column

\* the benefit with thresholds that include their bounds
benefit_from(score_halves) ==
    IF score_halves >= 2 * 1000000 THEN "HIGH"
    ELSE IF score_halves >= 2 * 100000 THEN "MEDIUM"
    ELSE "LOW"

\* 'HIGH' if priority_score > 1000000 else 'MEDIUM' if > 100000 else 'LOW'
\* (priority_score in halves)
benefit_of(score_halves) ==
    IF score_halves > 2 * 1000000 THEN "HIGH"
    ELSE IF score_halves > 2 * 100000 THEN "MEDIUM"
    ELSE "LOW"

\* the score with selectivity thresholds that include their bounds
single_column_score_inclusive(info, usage_weight) ==
    LET s0 == 2 * usage_weight
        s1 == IF info.column_type = "FOREIGN KEY" THEN s0 * 2 ELSE s0
        s2 == IF info.selectivity >= 100000 THEN (s1 * 3) \div 2 ELSE s1
        s3 == IF info.selectivity <= 10000 THEN s2 \div 2 ELSE s2
    IN  s3

\* the priority score of _create_index_suggestion, in halves
single_column_score(info, usage_weight) ==
    LET s0 == 2 * usage_weight
        s1 == IF info.column_type = "FOREIGN KEY" THEN s0 * 2 ELSE s0
        s2 == IF info.selectivity > 100000 THEN (s1 * 3) \div 2 ELSE s1
        s3 == IF info.selectivity < 10000 THEN s2 \div 2 ELSE s2
    IN  s3

\* _create_index_suggestion.  The 'sql' of a suggestion is the statement
\* CREATE INDEX CONCURRENTLY index_name ON table (columns), carried by the
\* fields index_name, table and columns.
create_index_suggestion(table, column, info, usage_weight) ==
    [type |-> "single_column",
     table |-> table,
     columns |-> <<column>>,
     index_name |-> single_index_name(table, column),
     priority_score |-> single_column_score(info, usage_weight),
     estimated_benefit |-> benefit_of(single_column_score(info, usage_weight))]

\* the guards of the single-column loop
single_column_kept(item, rows, existing_indexes) ==
    LET table == RSplitLastDot(item.key)[1]
        column == RSplitLastDot(item.key)[2]
    IN  /\ table \in Range(table_metadata_keys(rows))
        /\ column \in table_columns_of(rows, table)
        /\ column \notin Range(primary_keys(rows, table))
        /\ ~column_already_indexed(table, column, existing_indexes)

\* the single-column loop of generate_index_suggestions
single_column_suggestions(queries, rows, existing_indexes) ==
    LET usage == column_usage(<<>>, queries)
        sorted == StableSortDesc(usage, [k \in 1..Len(usage) |-> usage[k].weight])
        kept == SelectSeq(sorted, LAMBDA item : single_column_kept(item, rows, existing_indexes))
    IN  [k \in 1..Len(kept) |->
            LET table == RSplitLastDot(kept[k].key)[1]
                column == RSplitLastDot(kept[k].key)[2]
            IN  create_index_suggestion(table, column,
                                        column_info(rows, table, column),
                                        kept[k].weight)]

\* the foreign-key strategy with the benefit taken from the thresholds
RECURSIVE foreign_key_indexes_by_threshold(_, _, _)
foreign_key_indexes_by_threshold(tables, rows, existing_indexes) ==
    IF tables = <<>> THEN <<>>
    ELSE LET table == Head(tables)
             fks == SelectSeq(foreign_keys(rows, table),
                        LAMBDA c : ~column_already_indexed(table, c, existing_indexes))
         IN  [k \in 1..Len(fks) |->
                 [type |-> "foreign_key",
                  table |-> table,
                  columns |-> <<fks[k]>>,
                  index_name |-> single_index_name(table, fks[k]),
                  priority_score |-> 2 * 1000000,
                  estimated_benefit |-> benefit_of(2 * 1000000)]]
                \o foreign_key_indexes_by_threshold(Tail(tables), rows, existing_indexes)

\* _generate_foreign_key_indexes, for the tables in order
RECURSIVE foreign_key_indexes_of(_, _, _)
foreign_key_indexes_of(tables, rows, existing_indexes) ==
    IF tables = <<>> THEN <<>>
    ELSE LET table == Head(tables)
             fks == SelectSeq(foreign_keys(rows, table),
                        LAMBDA c : ~column_already_indexed(table, c, existing_indexes))
         IN  [k \in 1..Len(fks) |->
                 [type |-> "foreign_key",
                  table |-> table,
                  columns |-> <<fks[k]>>,
                  index_name |-> single_index_name(table, fks[k]),
                  priority_score |-> 2 * 1000000,
                  estimated_benefit |-> "HIGH"]]
                \o foreign_key_indexes_of(Tail(tables), rows, existing_indexes)

generate_foreign_key_indexes(rows, existing_indexes) ==
    foreign_key_indexes_of(table_metadata_keys(rows), rows, existing_indexes)

\* common_patterns
common_patterns ==
    << [table |-> TableKey(s_rds, t_fact_k12_student_enrollments),
        columns |-> <<c_school_year_id, c_dim_k12_school_id>>],
       [table |-> TableKey(s_rds, t_fact_k12_student_enrollments),
        columns |-> <<c_school_year_id, c_dim_grade_level_id>>],
       [table |-> TableKey(s_rds, t_fact_k12_student_enrollments),
        columns |-> <<c_dim_lea_id, c_school_year_id>>],
       [table |-> TableKey(s_staging, t_k12_enrollment),
        columns |-> <<c_school_year, c_student_identifier_state>>],
       [table |-> TableKey(s_staging, t_k12_enrollment),
        columns |-> <<c_school_identifier_state, c_school_year>>] >>

\* _composite_index_exists
composite_index_exists(table, columns, existing_indexes) ==
    \E index \in existing_indexes :
        /\ index.table = table
        /\ \A k \in 1..Len(columns) :
              Contains(Lower(index.definition), Lower(columns[k]))

\* f"idx_{table_name}_{'_'.join(columns)}"
composite_index_name(table, columns) ==
    <<"i","d","x","_">> \o SplitFirstDot(table)[2] \o Underscore \o Join(columns, Underscore)

\* the composite strategy without the test that the pattern's columns exist
composite_indexes_of_any_columns(rows, existing_indexes) ==
    LET kept == SelectSeq(common_patterns, LAMBDA p :
                    /\ p.table \in Range(table_metadata_keys(rows))
                    /\ ~composite_index_exists(p.table, p.columns, existing_indexes))
    IN  [k \in 1..Len(kept) |->
            [type |-> "composite",
             table |-> kept[k].table,
             columns |-> kept[k].columns,
             index_name |-> composite_index_name(kept[k].table, kept[k].columns),
             priority_score |-> 2 * 500000,
             estimated_benefit |-> "MEDIUM"]]

\* _generate_composite_indexes
generate_composite_indexes(rows, existing_indexes) ==
    LET kept == SelectSeq(common_patterns, LAMBDA p :
                    /\ p.table \in Range(table_metadata_keys(rows))
                    /\ \A k \in 1..Len(p.columns) :
                          p.columns[k] \in table_columns_of(rows, p.table)
                    /\ ~composite_index_exists(p.table, p.columns, existing_indexes))
    IN  [k \in 1..Len(kept) |->
            [type |-> "composite",
             table |-> kept[k].table,
             columns |-> kept[k].columns,
             index_name |-> composite_index_name(kept[k].table, kept[k].columns),
             priority_score |-> 2 * 500000,
             estimated_benefit |-> "MEDIUM"]]

\* suggestions[:50]
TopSuggestions ==
    50

\* the suggestions of the three strategies, before the sort
all_suggestions(queries, rows, existing_indexes) ==
    single_column_suggestions(queries, rows, existing_indexes)
        \o generate_foreign_key_indexes(rows, existing_indexes)
        \o generate_composite_indexes(rows, existing_indexes)

\* generate_index_suggestions, on the three reads of the database
generate_index_suggestions(queries, rows, cat) ==
    LET all == all_suggestions(queries, rows, get_existing_indexes(cat))
        sorted == StableSortDesc(all, [k \in 1..Len(all) |-> all[k].priority_score])
    IN  SubSeq(sorted, 1, Min(Len(sorted), TopSuggestions))

(***************************************************************************)
(* The connection (psycopg2 on PostgreSQL)                                 *)
(***************************************************************************)
\* The status in which the server receives a statement: with autocommit off
\* the driver opens a transaction before the first statement
status_at_issue(ac, status) ==
    IF ~ac /\ status = "IDLE" THEN "INTRANS" ELSE status

\* The status after a statement that succeeded
status_after_ok(ac, status) ==
    status_at_issue(ac, status)

\* A read (SELECT) can succeed unless the transaction is already aborted; any
\* statement can raise (timeout, cancellation)
read_outcomes(ac, status) ==
    IF status_at_issue(ac, status) = "INERROR" THEN {"error"} ELSE {"ok", "error"}

\* a build that succeeds whatever the transaction and the catalog
build_outcomes_unguarded(ac, status, cat, suggestion) ==
    {"ok", "error"}

\* CREATE INDEX CONCURRENTLY cannot run inside a transaction block; outside
\* of one it succeeds unless the name is taken in the schema or it raises
\* for a reason of its own (lock timeout, permission)
build_outcomes(ac, status, cat, suggestion) ==
    IF status_at_issue(ac, status) # "IDLE" THEN {"error"}
    ELSE IF \E ix \in cat : /\ ix.indexname = suggestion.index_name
                            /\ ix.schemaname = SplitFirstDot(suggestion.table)[1]
         THEN {"error"}
         ELSE {"ok", "error"}

\* the catalog entry a successful build adds
built_index(suggestion) ==
    [schemaname |-> SplitFirstDot(suggestion.table)[1],
     tablename |-> SplitFirstDot(suggestion.table)[2],
     indexname |-> suggestion.index_name,
     columns |-> suggestion.columns]

\* the check restricted to the indexes of schema rds
index_name_exists_in_rds(cat, index_name) ==
    \E ix \in cat : ix.indexname = index_name /\ ix.schemaname = s_rds

\* SELECT 1 FROM pg_indexes WHERE indexname = %s, then cursor.fetchone()
index_name_exists(cat, index_name) ==
    \E ix \in cat : ix.indexname = index_name

\* suggestions[:max_indexes]
slice_to(seq, n) ==
    IF n >= 0 THEN SubSeq(seq, 1, Min(n, Len(seq)))
    ELSE SubSeq(seq, 1, IF Len(seq) + n > 0 THEN Len(seq) + n ELSE 0)

(***************************************************************************)
(* analyze_index_effectiveness                                             *)
(***************************************************************************)
\* SQL NULLIF(a, b): <<>> is NULL, <<v>> the value v
NullIf(a, b) ==
    IF a = b THEN <<>> ELSE <<a>>

\* a comparison with NULL where NULL counts as true
RatioBelowTenthOrNull(fetched, denominator) ==
    IF denominator = <<>> THEN "true"
    ELSE IF 10 * fetched < denominator[1] THEN "true" ELSE "false"

\* idx_tup_fetch::float / denominator < 0.1 in SQL's three-valued logic: a
\* NULL denominator makes the quotient and the comparison NULL
RatioBelowTenth(fetched, denominator) ==
    IF denominator = <<>> THEN "null"
    ELSE IF 10 * fetched < denominator[1] THEN "true" ELSE "false"

\* the CASE of the status column: the first WHEN whose condition is true
effectiveness_status(row) ==
    IF row.scans = 0 THEN "UNUSED"
    ELSE IF row.scans < 100 THEN "LOW_USAGE"
    ELSE IF RatioBelowTenth(row.tuples_fetched, NullIf(row.tuples_read, 0)) = "true"
         THEN "LOW_SELECTIVITY"
         ELSE "GOOD"

\* the CASE of the ORDER BY
effectiveness_bucket(row) ==
    IF row.scans = 0 THEN 1 ELSE IF row.scans < 100 THEN 2 ELSE 3

\* analyze_index_effectiveness: the data frames the query can return, rows of
\* the analyzed schemas with their status, ordered by bucket and then by
\* scans descending (rows equal in both come in any order)
analyze_index_effectiveness(stats) ==
    LET rows == SelectSeq(stats, LAMBDA r : r.schemaname \in AnalyzedSchemas)
        n == Len(rows)
        ordered(f) ==
            \A a, b \in 1..n :
                a < b => \/ effectiveness_bucket(rows[f[a]]) < effectiveness_bucket(rows[f[b]])
                         \/ /\ effectiveness_bucket(rows[f[a]]) = effectiveness_bucket(rows[f[b]])
                            /\ rows[f[a]].scans >= rows[f[b]].scans
        orders == {f \in [1..n -> 1..n] :
                      (\A a, b \in 1..n : a # b => f[a] # f[b]) /\ ordered(f)}
    IN  {[k \in 1..n |->
             [schemaname |-> rows[f[k]].schemaname,
              indexname |-> rows[f[k]].indexname,
              scans |-> rows[f[k]].scans,
              tuples_read |-> rows[f[k]].tuples_read,
              tuples_fetched |-> rows[f[k]].tuples_fetched,
              status |-> effectiveness_status(rows[f[k]])]] : f \in orders}

(***************************************************************************)
(* The databases and command lines the runs are checked on                 *)
(***************************************************************************)
MaxQueries ==
    2
MaxRuns ==
    2
MaxMaxIndexes ==
    3

i_year ==
    <<"i","x","_","y","e","a","r">>
i_year_school ==
    <<"i","x","_","y","e","a","r","_","s","c","h","o","o","l">>
i_lea ==
    <<"i","x","_","l","e","a">>

TableA ==
    TableKey(s_rds, t_fact_k12_student_enrollments)
TableB ==
    TableKey(s_staging, t_fact_k12_student_enrollments)

\* indexes a database may hold before the first run
IndexOnYear ==
    [schemaname |-> s_rds, tablename |-> t_fact_k12_student_enrollments,
     indexname |-> i_year, columns |-> <<c_school_year_id>>]
IndexOnYearSchool ==
    [schemaname |-> s_rds, tablename |-> t_fact_k12_student_enrollments,
     indexname |-> i_year_school, columns |-> <<c_school_year_id, c_dim_k12_school_id>>]
IndexOnLea ==
    [schemaname |-> s_rds, tablename |-> t_fact_k12_student_enrollments,
     indexname |-> i_lea, columns |-> <<c_DimLeaId>>]
IndexOnStagingYear ==
    [schemaname |-> s_staging, tablename |-> t_fact_k12_student_enrollments,
     indexname |-> single_index_name(TableB, c_school_year_id),
     columns |-> <<c_school_year_id>>]

Row(schema, table, column, column_type, n_distinct) ==
    [table_schema |-> schema, table_name |-> table, column_name |-> column,
     column_type |-> column_type, n_distinct |-> n_distinct]

NDistinctChoices ==
    {[kind |-> "null"], [kind |-> "negative", millionths |-> 20000],
     [kind |-> "count", n |-> 5]}

\* rows of the metadata query, ORDER BY table_schema, table_name, ordinal_position
MetadataRows(roleYear, ndYear, roleSchool, withLea, roleStagingYear) ==
    <<Row(s_rds, t_fact_k12_student_enrollments, c_school_year_id, roleYear, ndYear),
      Row(s_rds, t_fact_k12_student_enrollments, c_dim_k12_school_id, roleSchool,
          [kind |-> "null"])>>
    \o (IF withLea
        THEN <<Row(s_rds, t_fact_k12_student_enrollments, c_DimLeaId, "FOREIGN KEY",
                   [kind |-> "null"])>>
        ELSE <<>>)
    \o (IF roleStagingYear # "absent"
        THEN <<Row(s_staging, t_fact_k12_student_enrollments, c_school_year_id,
                   roleStagingYear, [kind |-> "null"])>>
        ELSE <<>>)

\* SELECT * FROM table WHERE column = $1 [AND column = $1 ...]
SelectWhere(table, columns) ==
    <<w_select, w_star, w_from, table, w_where>>
        \o Flatten([k \in 1..Len(columns) |->
                       (IF k = 1 THEN <<>> ELSE <<w_and>>) \o <<columns[k], w_eq, w_param>>])

\* rows of pg_stat_statements (calls > 10, mean_time > 100)
QueryYear ==
    [calls |-> 500, mean_time |-> 200,
     query |-> SelectWhere(TableA, <<c_school_year_id>>)]
QuerySchoolYear ==
    [calls |-> 20, mean_time |-> 150,
     query |-> SelectWhere(TableA, <<c_dim_k12_school_id, c_school_year_id>>)]
QueryStagingYear ==
    [calls |-> 5000, mean_time |-> 300,
     query |-> SelectWhere(TableB, <<c_school_year_id>>)]

QueryChoices ==
    {QueryYear, QuerySchoolYear, QueryStagingYear}

\* workload samples: up to MaxQueries distinct rows, in any order
Workloads ==
    UNION {{w \in [1..n -> QueryChoices] : \A a, b \in 1..n : a # b => w[a] # w[b]}
               : n \in 0..MaxQueries}

\* --max-indexes (type=int)
MaxIndexesChoices ==
    (-1)..MaxMaxIndexes

Args ==
    [analyze : BOOLEAN, create : BOOLEAN, report_only : BOOLEAN,
     max_indexes : MaxIndexesChoices]

NoArgs ==
    [analyze |-> FALSE, create |-> FALSE, report_only |-> FALSE, max_indexes |-> 0]

s_public ==
    <<"p","u","b","l","i","c">>

\* a row of pg_stat_user_indexes
StatsRow(schema, indexname, scans, tuples_read, tuples_fetched) ==
    [schemaname |-> schema, indexname |-> indexname, scans |-> scans,
     tuples_read |-> tuples_read, tuples_fetched |-> tuples_fetched]

\* the statistics of the database the runs are made on
StatsSample ==
    <<StatsRow(s_rds, i_year, 0, 0, 0), StatsRow(s_rds, i_lea, 500, 1000, 50),
      StatsRow(s_public, i_year_school, 0, 0, 0)>>

MaxStatsRows ==
    2

StatsRowChoices ==
    {StatsRow(schema, i_year, scans, tuples_read, tuples_fetched) :
         schema \in {s_rds, s_public},
         scans \in {0, 99, 100},
         tuples_read \in {0, 1000},
         tuples_fetched \in {0, 99, 100}}

(***************************************************************************)
(* main and create_indexes                                                 *)
(***************************************************************************)
\* the run creates: main takes the branch that calls create_indexes
CreateRequested ==
    args.create /\ ~args.report_only

\* the state of a process before main connects
FreshRun ==
    /\ pc = "start"
    /\ autocommit = FALSE
    /\ tx_status = "CLOSED"
    /\ suggestions = <<>>
    /\ created_indexes = <<>>
    /\ batch = <<>>
    /\ cur = 0
    /\ cstate = <<>>
    /\ statements = <<>>
    /\ log = <<>>
    /\ report = <<>>
    /\ exit_status = "running"
    /\ effectiveness_df = <<>>
    /\ others = {}

Init ==
    /\ metadata_rows \in
           {MetadataRows("FOREIGN KEY", [kind |-> "negative", millionths |-> 20000],
                         "REGULAR", FALSE, "FOREIGN KEY"),
            MetadataRows("REGULAR", [kind |-> "negative", millionths |-> 20000],
                         "REGULAR", FALSE, "absent")}
    /\ catalog \in {{}, {IndexOnStagingYear}, {IndexOnYearSchool}}
    /\ query_patterns \in {<<>>, <<QueryYear>>}
    /\ args \in Args
    /\ index_stats = StatsSample
    /\ run = 1
    /\ prev_runs = <<>>
    /\ FreshRun

\* one statement on the connection, as the server received it: for a check or
\* a build the position of its candidate in the batch, and for a check
\* whether the catalog held the name
Statement(op, candidate, name, present) ==
    [op |-> op, candidate |-> candidate, name |-> name, present |-> present,
     status |-> status_at_issue(autocommit, tx_status)]

\* a logger record
LogRecord(level, message, name) ==
    [level |-> level, message |-> message, name |-> name]

\* an except clause that ends the run without the exit status
ExitQuietly ==
    /\ pc' = "done"
    /\ exit_status' = 0
    /\ tx_status' = "CLOSED"

\* main's except clause and finally: print the error, sys.exit(1), disconnect
ExitOnException ==
    /\ pc' = "done"
    /\ exit_status' = 1
    /\ tx_status' = "CLOSED"

\* analyzer.connect()
Connect ==
    /\ pc = "start"
    /\ pc' = "connected"
    /\ autocommit' = FALSE
    /\ tx_status' = "IDLE"
    /\ UNCHANGED <<catalog, metadata_rows, query_patterns, args, run, suggestions,
                   created_indexes, batch, cur, cstate, statements, log, report,
                   exit_status, prev_runs,
                   index_stats, effectiveness_df, others>>

\* analyzer.connect() raises
ConnectFails ==
    /\ pc = "start"
    /\ ExitOnException
    /\ UNCHANGED <<catalog, metadata_rows, query_patterns, args, run, autocommit,
                   suggestions, created_indexes, batch, cur, cstate, statements,
                   log, report, prev_runs,
                   index_stats, effectiveness_df, others>>

\* the three reads of generate_index_suggestions, as statements
AnalysisReads ==
    LET first == Statement("read", 0, <<>>, FALSE)
        later == [first EXCEPT !.status = status_after_ok(autocommit, tx_status)]
    IN  <<first, later, later>>

\* if args.analyze or args.report_only: suggestions = generate_index_suggestions()
Analyze ==
    /\ pc = "connected"
    /\ pc' = "analyzed"
    /\ IF args.analyze \/ args.report_only
       THEN /\ suggestions' = generate_index_suggestions(query_patterns, metadata_rows, catalog)
            /\ tx_status' = status_after_ok(autocommit, tx_status)
            /\ statements' = statements \o AnalysisReads
       ELSE UNCHANGED <<suggestions, tx_status, statements>>
    /\ UNCHANGED <<catalog, metadata_rows, query_patterns, args, run, autocommit,
                   created_indexes, batch, cur, cstate, log, report, exit_status,
                   prev_runs,
                   index_stats, effectiveness_df, others>>

\* one of the reads of generate_index_suggestions raises, in either call of main
AnalyzeFails ==
    /\ \/ pc = "connected" /\ (args.analyze \/ args.report_only)
       \/ pc = "analyzed" /\ args.create /\ ~args.report_only /\ suggestions = <<>>
    /\ ExitOnException
    /\ statements' = Append(statements, Statement("read", 0, <<>>, FALSE))
    /\ UNCHANGED <<catalog, metadata_rows, query_patterns, args, run, autocommit,
                   suggestions, created_indexes, batch, cur, cstate, log, report,
                   prev_runs,
                   index_stats, effectiveness_df, others>>

\* if args.create and not args.report_only: the head of the branch and of
\* create_indexes, up to the loop
StartCreate ==
    /\ pc = "analyzed"
    /\ args.create /\ ~args.report_only
    /\ pc' = "creating"
    /\ IF suggestions = <<>>
       THEN /\ suggestions' = generate_index_suggestions(query_patterns, metadata_rows, catalog)
            /\ tx_status' = status_after_ok(autocommit, tx_status)
            /\ statements' = statements \o AnalysisReads
       ELSE UNCHANGED <<suggestions, tx_status, statements>>
    /\ batch' = slice_to(suggestions', args.max_indexes)
    /\ cstate' = [k \in 1..Len(batch') |-> "PENDING"]
    /\ cur' = 1
    /\ UNCHANGED <<catalog, metadata_rows, query_patterns, args, run, autocommit,
                   created_indexes, log, report, exit_status, prev_runs,
                   index_stats, effectiveness_df, others>>

\* the branch is not taken
SkipCreate ==
    /\ pc = "analyzed"
    /\ ~(args.create /\ ~args.report_only)
    /\ pc' = "report"
    /\ UNCHANGED <<catalog, metadata_rows, query_patterns, args, run, autocommit,
                   tx_status, suggestions, created_indexes, batch, cur, cstate,
                   statements, log, report, exit_status, prev_runs,
                   index_stats, effectiveness_df, others>>

\* the loop of create_indexes takes the next suggestion and calls
\* _create_single_index, which opens its cursor
BeginCandidate ==
    /\ pc = "creating"
    /\ cur <= Len(batch)
    /\ cstate[cur] = "PENDING"
    /\ cstate' = [cstate EXCEPT ![cur] = "CHECK_EXISTS"]
    /\ UNCHANGED <<catalog, metadata_rows, query_patterns, args, run, pc, autocommit,
                   tx_status, suggestions, created_indexes, batch, cur, statements,
                   log, report, exit_status, prev_runs,
                   index_stats, effectiveness_df, others>>

\* _create_single_index returned True: create_indexes appends and logs
CandidateSucceeded(outcome, records) ==
    /\ cstate' = [cstate EXCEPT ![cur] = outcome]
    /\ created_indexes' = Append(created_indexes, batch[cur])
    /\ log' = log \o records \o <<LogRecord("info", "Created index", batch[cur].index_name)>>
    /\ cur' = cur + 1
    /\ UNCHANGED <<pc, exit_status>>

\* the except clause, with the loop of create_indexes left at the failure
CandidateFailedBreaks(records) ==
    /\ cstate' = [cstate EXCEPT ![cur] = "FAILED"]
    /\ tx_status' = "IDLE"
    /\ log' = log \o records
                  \o <<LogRecord("error", "Failed to create index (error)", batch[cur].index_name),
                       LogRecord("warning", "Failed to create index", batch[cur].index_name)>>
    /\ cur' = Len(batch) + 1
    /\ UNCHANGED <<pc, exit_status, created_indexes>>

\* the except clause of _create_single_index (log, rollback, return False),
\* then the else branch of create_indexes
CandidateFailed(records) ==
    /\ cstate' = [cstate EXCEPT ![cur] = "FAILED"]
    /\ tx_status' = "IDLE"
    /\ log' = log \o records
                  \o <<LogRecord("error", "Failed to create index (error)", batch[cur].index_name),
                       LogRecord("warning", "Failed to create index", batch[cur].index_name)>>
    /\ cur' = cur + 1
    /\ UNCHANGED <<pc, exit_status, created_indexes>>

\* the existence check of _create_single_index
CheckExists ==
    /\ pc = "creating"
    /\ cur <= Len(batch)
    /\ cstate[cur] = "CHECK_EXISTS"
    /\ statements' = Append(statements,
                        Statement("check", cur, batch[cur].index_name,
                                  \E ix \in catalog : ix.indexname = batch[cur].index_name))
    /\ \E outcome \in read_outcomes(autocommit, tx_status) :
          IF outcome = "error"
          THEN CandidateFailed(<<>>)
          ELSE IF index_name_exists(catalog, batch[cur].index_name)
               THEN /\ tx_status' = status_after_ok(autocommit, tx_status)
                    /\ CandidateSucceeded("SKIPPED_EXISTS",
                           <<LogRecord("info", "already exists, skipping",
                                       batch[cur].index_name)>>)
               ELSE /\ tx_status' = status_after_ok(autocommit, tx_status)
                    /\ cstate' = [cstate EXCEPT ![cur] = "BUILDING"]
                    /\ UNCHANGED <<pc, exit_status, created_indexes, log, cur>>
    /\ UNCHANGED <<catalog, metadata_rows, query_patterns, args, run, autocommit,
                   suggestions, batch, report, prev_runs,
                   index_stats, effectiveness_df, others>>

\* cursor.execute(suggestion['sql']), then commit, or the except clause
Build ==
    /\ pc = "creating"
    /\ cur <= Len(batch)
    /\ cstate[cur] = "BUILDING"
    /\ statements' = Append(statements,
                        Statement("build", cur, batch[cur].index_name,
                                  \E ix \in catalog : ix.indexname = batch[cur].index_name))
    /\ \E outcome \in build_outcomes(autocommit, tx_status, catalog, batch[cur]) :
          IF outcome = "error"
          THEN /\ CandidateFailed(<<LogRecord("info", "Creating index", batch[cur].index_name)>>)
               /\ UNCHANGED catalog
          ELSE /\ catalog' = catalog \cup {built_index(batch[cur])}
               /\ tx_status' = "IDLE"
               /\ CandidateSucceeded("CREATED",
                      <<LogRecord("info", "Creating index", batch[cur].index_name)>>)
    /\ UNCHANGED <<metadata_rows, query_patterns, args, run, autocommit, suggestions,
                   batch, report, prev_runs,
                   index_stats, effectiveness_df, others>>

\* create_indexes returns its created list to main
FinishCreate ==
    /\ pc = "creating"
    /\ cur > Len(batch)
    /\ pc' = "report"
    /\ UNCHANGED <<catalog, metadata_rows, query_patterns, args, run, autocommit,
                   tx_status, suggestions, created_indexes, batch, cur, cstate,
                   statements, log, report, exit_status, prev_runs,
                   index_stats, effectiveness_df, others>>

\* the lines generate_report writes, as a record: the counts, the top
\* suggestions, the created list and the effectiveness section
ReportOf(section, df) ==
    LET unused == SelectSeq(df, LAMBDA r : r.status = "UNUSED")
        low_usage == SelectSeq(df, LAMBDA r : r.status = "LOW_USAGE")
    IN  [suggestions |-> Len(suggestions),
         top |-> SubSeq(suggestions, 1, Min(10, Len(suggestions))),
         created |-> created_indexes,
         effectiveness |-> section,
         unused |-> SubSeq(unused, 1, Min(10, Len(unused))),
         low_usage |-> SubSeq(low_usage, 1, Min(5, Len(low_usage)))]

\* generate_report where a failed read of the index statistics ends the run
ReportOrExit ==
    /\ pc = "report"
    /\ statements' = Append(statements, Statement("read", 0, <<>>, FALSE))
    /\ \E outcome \in read_outcomes(autocommit, tx_status) :
          IF outcome = "ok"
          THEN /\ \E df \in analyze_index_effectiveness(index_stats) :
                     /\ effectiveness_df' = df
                     /\ report' = <<ReportOf("analysis", df)>>
               /\ pc' = "done"
               /\ exit_status' = 0
               /\ tx_status' = "CLOSED"
          ELSE /\ ExitOnException
               /\ UNCHANGED <<effectiveness_df, report>>
    /\ UNCHANGED <<catalog, metadata_rows, query_patterns, args, run, autocommit,
                   suggestions, created_indexes, batch, cur, cstate, log, prev_runs,
                   index_stats, others>>

\* generate_report with its read of the index statistics, the report file,
\* the end of main and its finally
Report ==
    /\ pc = "report"
    /\ statements' = Append(statements, Statement("read", 0, <<>>, FALSE))
    /\ \E outcome \in read_outcomes(autocommit, tx_status) :
          IF outcome = "ok"
          THEN \E df \in analyze_index_effectiveness(index_stats) :
                  /\ effectiveness_df' = df
                  /\ report' = <<ReportOf("analysis", df)>>
          ELSE /\ report' = <<ReportOf("Failed", <<>>)>>
               /\ UNCHANGED effectiveness_df
    /\ pc' = "done"
    /\ exit_status' = 0
    /\ tx_status' = "CLOSED"
    /\ UNCHANGED <<catalog, metadata_rows, query_patterns, args, run, autocommit,
                   suggestions, created_indexes, batch, cur, cstate, log, prev_runs,
                   index_stats, others>>

\* the same command is run again on the same database
NextRun ==
    /\ pc = "done"
    /\ run < MaxRuns
    /\ run' = run + 1
    /\ prev_runs' = Append(prev_runs,
                       [suggestions |-> suggestions, created |-> created_indexes,
                        batch |-> batch, cstate |-> cstate, exit_status |-> exit_status,
                        report |-> report])
    /\ pc' = "start"
    /\ autocommit' = FALSE
    /\ tx_status' = "CLOSED"
    /\ suggestions' = <<>>
    /\ created_indexes' = <<>>
    /\ batch' = <<>>
    /\ cur' = 0
    /\ cstate' = <<>>
    /\ statements' = <<>>
    /\ log' = <<>>
    /\ report' = <<>>
    /\ exit_status' = "running"
    /\ effectiveness_df' = <<>>
    /\ others' = {}
    /\ UNCHANGED <<catalog, metadata_rows, query_patterns, args, index_stats>>

Next ==
    \/ Connect
    \/ ConnectFails
    \/ Analyze
    \/ AnalyzeFails
    \/ StartCreate
    \/ SkipCreate
    \/ BeginCandidate
    \/ CheckExists
    \/ Build
    \/ FinishCreate
    \/ Report
    \/ NextRun

Spec ==
    Init /\ [][Next]_vars

(***************************************************************************)
(* generate_index_suggestions on its own, over more databases              *)
(***************************************************************************)
\* a table with more foreign keys than generate_index_suggestions returns
MaxWideColumns ==
    52

DecimalDigits ==
    <<"0","1","2","3","4","5","6","7","8","9">>

\* the column fk_NN
WideColumn(k) ==
    <<"f","k","_", DecimalDigits[(k \div 10) + 1], DecimalDigits[(k % 10) + 1]>>

WideRows ==
    <<Row(s_rds, t_fact_k12_student_enrollments, c_school_year_id, "REGULAR",
          [kind |-> "negative", millionths |-> 20000]),
      Row(s_rds, t_fact_k12_student_enrollments, c_dim_k12_school_id, "REGULAR",
          [kind |-> "null"])>>
    \o [k \in 1..MaxWideColumns |->
            Row(s_rds, t_fact_k12_student_enrollments, WideColumn(k), "FOREIGN KEY",
                [kind |-> "null"])]
    \o <<Row(s_staging, t_fact_k12_student_enrollments, c_school_year_id, "REGULAR",
            [kind |-> "null"])>>

\* a foreign key whose name is part of the name of an indexed column
SubstringRows ==
    <<Row(s_rds, t_fact_k12_student_enrollments, c_school_year_id, "REGULAR",
          [kind |-> "negative", millionths |-> 20000]),
      Row(s_rds, t_fact_k12_student_enrollments, c_school_year, "FOREIGN KEY",
          [kind |-> "null"])>>

\* a query on the school column alone
QuerySchool ==
    [calls |-> 400, mean_time |-> 200,
     query |-> SelectWhere(TableA, <<c_dim_k12_school_id>>)]

\* the staging table with a year text next to a year key
StagingRows ==
    <<Row(s_staging, t_k12_enrollment, c_school_year, "REGULAR", [kind |-> "null"]),
      Row(s_staging, t_k12_enrollment, c_school_year_id, "REGULAR", [kind |-> "null"]),
      Row(s_staging, t_k12_enrollment, c_student_identifier_state, "REGULAR",
          [kind |-> "null"])>>

\* indexes of the staging table: on the year key and the student, and on
\* the student and the year text
IndexOnYearIdStudent ==
    [schemaname |-> s_staging, tablename |-> t_k12_enrollment,
     indexname |-> <<"i","x","_","e","n","r","_","a">>,
     columns |-> <<c_school_year_id, c_student_identifier_state>>]
IndexOnStudentYear ==
    [schemaname |-> s_staging, tablename |-> t_k12_enrollment,
     indexname |-> <<"i","x","_","e","n","r","_","b">>,
     columns |-> <<c_student_identifier_state, c_school_year>>]

\* further databases: [rows, cat, queries]
ExtraScenarios ==
    {[rows |-> WideRows, cat |-> cat, queries |-> queries] :
         cat \in {{}, {IndexOnYearSchool}},
         queries \in {<<>>, <<QueryYear, QueryStagingYear>>, <<QuerySchoolYear, QueryYear>>}}
    \cup {[rows |-> SubstringRows, cat |-> cat, queries |-> queries] :
              cat \in {{}, {IndexOnYear}},
              queries \in {<<>>, <<QueryYear>>}}
    \cup {[rows |-> MetadataRows("REGULAR", nd, roleSchool, FALSE, "absent"),
           cat |-> {}, queries |-> queries] :
              nd \in NDistinctChoices,
              roleSchool \in {"FOREIGN KEY", "REGULAR"},
              queries \in {<<QueryYear, QuerySchool>>, <<QuerySchool, QueryYear>>}}
    \cup {[rows |-> StagingRows, cat |-> cat, queries |-> <<>>] :
              cat \in {{}, {IndexOnYearIdStudent}, {IndexOnStudentYear}}}

InitGen ==
    /\ \/ /\ metadata_rows \in
                 {MetadataRows(roleYear, ndYear, roleSchool, withLea, roleStagingYear) :
                      roleYear \in {"PRIMARY KEY", "FOREIGN KEY", "REGULAR"},
                      ndYear \in NDistinctChoices,
                      roleSchool \in {"FOREIGN KEY", "REGULAR"},
                      withLea \in BOOLEAN,
                      roleStagingYear \in {"absent", "FOREIGN KEY"}}
          /\ catalog \in SUBSET {IndexOnYear, IndexOnYearSchool, IndexOnLea, IndexOnStagingYear}
          /\ \A ix \in catalog :
                 ix.schemaname = s_rds =>
                     \A k \in 1..Len(ix.columns) :
                         ix.columns[k] \in
                             table_columns_of(metadata_rows,
                                              TableKey(ix.schemaname, ix.tablename))
          /\ query_patterns \in Workloads
       \/ \E sc \in ExtraScenarios :
             /\ metadata_rows = sc.rows
             /\ catalog = sc.cat
             /\ query_patterns = sc.queries
    /\ args = NoArgs
    /\ run = 1
    /\ prev_runs = <<>>
    /\ pc = "generate"
    /\ autocommit = FALSE
    /\ tx_status = "IDLE"
    /\ suggestions = <<>>
    /\ created_indexes = <<>>
    /\ batch = <<>>
    /\ cur = 0
    /\ cstate = <<>>
    /\ statements = <<>>
    /\ log = <<>>
    /\ report = <<>>
    /\ exit_status = "running"
    /\ index_stats = <<>>
    /\ effectiveness_df = <<>>
    /\ others = {}

\* suggestions = analyzer.generate_index_suggestions()
Generate ==
    /\ pc = "generate"
    /\ pc' = "generated"
    /\ suggestions' = generate_index_suggestions(query_patterns, metadata_rows, catalog)
    /\ tx_status' = status_after_ok(autocommit, tx_status)
    /\ statements' = statements \o AnalysisReads
    /\ UNCHANGED <<catalog, metadata_rows, query_patterns, args, run, autocommit,
                   created_indexes, batch, cur, cstate, log, report, exit_status,
                   prev_runs,
                   index_stats, effectiveness_df, others>>

NextGen ==
    Generate

SpecGen ==
    InitGen /\ [][NextGen]_vars

(***************************************************************************)
(* The runs with other sessions that create indexes                        *)
(***************************************************************************)
MaxOtherIndexes ==
    2

\* schema and name of the index a candidate's statement would build
RaceKey(suggestion) ==
    <<SplitFirstDot(suggestion.table)[1], suggestion.index_name>>

\* another session creates, and commits, an index with the name of a
\* candidate, after the run took its snapshot of the indexes
OtherSessionCreates ==
    /\ pc \in {"analyzed", "creating"}
    /\ Cardinality(others) < MaxOtherIndexes
    /\ \E k \in 1..Len(suggestions) :
          /\ ~\E ix \in catalog :
                 /\ ix.indexname = suggestions[k].index_name
                 /\ ix.schemaname = SplitFirstDot(suggestions[k].table)[1]
          /\ catalog' = catalog \cup {built_index(suggestions[k])}
          /\ others' = others \cup {RaceKey(suggestions[k])}
    /\ UNCHANGED <<metadata_rows, query_patterns, args, run, pc, autocommit, tx_status,
                   suggestions, created_indexes, batch, cur, cstate, statements, log,
                   report, exit_status, prev_runs, index_stats, effectiveness_df>>

\* one run with create requested
InitRace ==
    /\ Init
    /\ CreateRequested

NextRace ==
    \/ Connect
    \/ ConnectFails
    \/ Analyze
    \/ AnalyzeFails
    \/ StartCreate
    \/ BeginCandidate
    \/ CheckExists
    \/ Build
    \/ FinishCreate
    \/ Report
    \/ OtherSessionCreates

SpecRace ==
    InitRace /\ [][NextRace]_vars

(***************************************************************************)
(* analyze_index_effectiveness on its own, over more statistics            *)
(***************************************************************************)
InitEff ==
    /\ index_stats \in UNION {[1..n -> StatsRowChoices] : n \in 0..MaxStatsRows}
    /\ metadata_rows = <<>>
    /\ catalog = {}
    /\ query_patterns = <<>>
    /\ args = NoArgs
    /\ run = 1
    /\ prev_runs = <<>>
    /\ pc = "effectiveness"
    /\ autocommit = FALSE
    /\ tx_status = "IDLE"
    /\ suggestions = <<>>
    /\ created_indexes = <<>>
    /\ batch = <<>>
    /\ cur = 0
    /\ cstate = <<>>
    /\ statements = <<>>
    /\ log = <<>>
    /\ report = <<>>
    /\ exit_status = "running"
    /\ effectiveness_df = <<>>
    /\ others = {}

\* effectiveness_df = self.analyze_index_effectiveness()
AnalyzeEffectiveness ==
    /\ pc = "effectiveness"
    /\ pc' = "effectiveness_done"
    /\ effectiveness_df' \in analyze_index_effectiveness(index_stats)
    /\ tx_status' = status_after_ok(autocommit, tx_status)
    /\ statements' = Append(statements, Statement("read", 0, <<>>, FALSE))
    /\ UNCHANGED <<catalog, metadata_rows, query_patterns, args, run, autocommit,
                   suggestions, created_indexes, batch, cur, cstate, log, report,
                   exit_status, prev_runs, index_stats, others>>

NextEff ==
    AnalyzeEffectiveness

SpecEff ==
    InitEff /\ [][NextEff]_vars

(***************************************************************************)
(* Properties                                                              *)
(***************************************************************************)
Terminal ==
    {"SKIPPED_EXISTS", "CREATED", "FAILED"}

\* create_indexes has returned to main in this run
CreationReturned ==
    /\ args.create /\ ~args.report_only
    /\ pc = "report" \/ (pc = "done" /\ report # <<>>)

\* the statements of the candidate at position k of the batch
StatementsOf(k) ==
    SelectSeq(statements, LAMBDA st : st.candidate = k)

FailedCandidates ==
    {k \in 1..Len(cstate) : cstate[k] = "FAILED"}

\* C1: the build statement (CREATE INDEX CONCURRENTLY) of a candidate is never
\* issued while a transaction is open on the connection.
C1_BuildOutsideTransaction ==
    \A p \in 1..Len(statements) :
        statements[p].op = "build" => statements[p].status = "IDLE"

\* C2: when the same command is run twice with creation enabled, no candidate
\* that the first run returned as created is returned as created by the second
\* run, and the second run's ranked list has no (table, columns) of a
\* candidate the first run built.
C2_SecondRunIdempotent ==
    (run = 2 /\ CreationReturned /\ pc = "done") =>
        /\ \A c \in Range(prev_runs[1].created) : c \notin Range(created_indexes)
        /\ \A k \in 1..Len(prev_runs[1].cstate) :
              prev_runs[1].cstate[k] = "CREATED" =>
                  \A j \in 1..Len(suggestions) :
                      ~(/\ suggestions[j].table = prev_runs[1].batch[k].table
                        /\ suggestions[j].columns = prev_runs[1].batch[k].columns)

\* C3: a candidate whose check or build raises is the only one marked FAILED
\* by it, the connection is rolled back before the next candidate starts, and
\* every later candidate of the batch is still attempted: when create_indexes
\* returns, each of the first max_indexes suggestions has a terminal state.
C3_FailureIsolation ==
    /\ CreationReturned =>
          /\ \A k \in 1..Len(batch) : cstate[k] \in Terminal
          /\ args.max_indexes >= 0 =>
                Len(batch) = Min(args.max_indexes, Len(suggestions))
    /\ (/\ pc = "creating" /\ cur > 1 /\ cstate[cur - 1] = "FAILED"
        /\ cur <= Len(batch) => cstate[cur] = "PENDING") => tx_status = "IDLE"
    /\ Cardinality(FailedCandidates)
          = Len(SelectSeq(log, LAMBDA r : r.level = "error"))
    /\ Len(created_indexes) + Cardinality(FailedCandidates)
          = Cardinality({k \in 1..Len(cstate) : cstate[k] \in Terminal})

\* C3 witness: create_indexes returned after a candidate's build failed and a
\* later candidate was attempted.
C3_Witness ==
    /\ CreationReturned
    /\ \E k, j \in 1..Len(batch) :
          /\ k < j
          /\ cstate[k] = "FAILED"
          /\ \E st \in Range(StatementsOf(k)) : st.op = "build"
          /\ StatementsOf(j) # <<>>

\* C4: a run in which creation was requested and a candidate failed ends with
\* a non-zero exit status.
C4_NonZeroExitOnFailure ==
    (pc = "done" /\ FailedCandidates # {}) => exit_status # 0

\* C5: no two suggestions of one run have the same index name.
C5_UniqueNames ==
    pc = "generated" =>
        \A i, j \in 1..Len(suggestions) :
            i # j => suggestions[i].index_name # suggestions[j].index_name

\* the keys of column_usage for the workload
UsageKeys ==
    {item.key : item \in Range(column_usage(<<>>, query_patterns))}

\* some index of the catalog is on that table and has the column
ColumnIndexed(table, column) ==
    \E ix \in catalog :
        /\ TableKey(ix.schemaname, ix.tablename) = table
        /\ column \in Range(ix.columns)

\* C6: a foreign-key column that is not indexed and is used by the workload
\* has exactly one suggestion, the foreign-key one (score 1,000,000, HIGH).
C6_ForeignKeyColumnOnce ==
    pc = "generated" =>
        \A r \in Range(metadata_rows) :
            LET table == TableKey(r.table_schema, r.table_name)
                on_column == {k \in 1..Len(suggestions) :
                                 /\ suggestions[k].table = table
                                 /\ suggestions[k].columns = <<r.column_name>>}
            IN  (/\ r.column_type = "FOREIGN KEY"
                 /\ ~ColumnIndexed(table, r.column_name)
                 /\ (table \o Dot \o r.column_name) \in UsageKeys)
                => /\ Cardinality(on_column) = 1
                   /\ \A k \in on_column :
                         /\ suggestions[k].type = "foreign_key"
                         /\ suggestions[k].priority_score = 2 * 1000000
                         /\ suggestions[k].estimated_benefit = "HIGH"

\* C7: no suggestion has the column set of an existing index of its table.
C7_NoSuggestionOnIndexedColumns ==
    pc = "generated" =>
        \A k \in 1..Len(suggestions) :
            \A ix \in catalog :
                TableKey(ix.schemaname, ix.tablename) = suggestions[k].table
                    => Range(ix.columns) # Range(suggestions[k].columns)

OriginalEdges ==
    {<<"PENDING", "CHECK_EXISTS">>, <<"CHECK_EXISTS", "SKIPPED_EXISTS">>,
     <<"CHECK_EXISTS", "BUILDING">>, <<"BUILDING", "CREATED">>,
     <<"BUILDING", "FAILED">>}

\* the steps of the candidates between two states of one run's batch
Steps ==
    IF run' = run /\ Len(cstate') = Len(cstate)
    THEN {<<cstate[k], cstate'[k]>> : k \in {j \in 1..Len(cstate) : cstate'[j] # cstate[j]}}
    ELSE {}

\* the build of a candidate directly follows a check of the candidate's own
\* name that found the catalog without it; a candidate skipped as existing had
\* such a check find the name, has no build, and is in the created list
CheckedBeforeBuild ==
    /\ \A p \in 1..Len(statements) :
          statements[p].op = "build" =>
              /\ p > 1
              /\ statements[p - 1].op = "check"
              /\ statements[p - 1].candidate = statements[p].candidate
              /\ statements[p - 1].name = batch[statements[p].candidate].index_name
              /\ ~statements[p - 1].present
    /\ \A k \in 1..Len(cstate) :
          /\ cstate[k] \in {"BUILDING", "CREATED"} =>
                \E st \in Range(StatementsOf(k)) : st.op = "check" /\ ~st.present
          /\ cstate[k] = "SKIPPED_EXISTS" =>
                /\ \E st \in Range(StatementsOf(k)) :
                      st.op = "check" /\ st.present /\ st.name = batch[k].index_name
                /\ \A st \in Range(StatementsOf(k)) : st.op # "build"
                /\ batch[k] \in Range(created_indexes)

\* C8 as stated: every candidate goes PENDING -> CHECK_EXISTS ->
\* (SKIPPED_EXISTS | BUILDING) -> (CREATED | FAILED), a build follows a check
\* that found the name absent, a found name means no build and success.
C8_OriginalProtocol ==
    [][Steps \subseteq OriginalEdges /\ CheckedBeforeBuild']_vars

\* C8: every candidate goes PENDING -> CHECK_EXISTS -> (SKIPPED_EXISTS |
\* BUILDING | FAILED) and BUILDING -> (CREATED | FAILED): a candidate whose
\* existence check raises is FAILED without a build.  A build follows a check
\* of the candidate's name that found it absent; a found name means no build
\* and success.
C8_Protocol ==
    [][/\ Steps \subseteq (OriginalEdges \cup {<<"CHECK_EXISTS", "FAILED">>})
       /\ CheckedBeforeBuild']_vars

\* C8 witness: in one batch a candidate was skipped as existing, one failed in
\* its build and one failed in its check.
C8_Witness ==
    /\ CreationReturned
    /\ \E k \in 1..Len(batch) : cstate[k] = "SKIPPED_EXISTS"
    /\ \E k \in 1..Len(batch) :
          cstate[k] = "FAILED" /\ \E st \in Range(StatementsOf(k)) : st.op = "build"
    /\ \E k \in 1..Len(batch) :
          cstate[k] = "FAILED" /\ \A st \in Range(StatementsOf(k)) : st.op = "check"

\* C9: the result of the run has one entry for every candidate the creator
\* processed, the failed ones included.
C9_OneResultPerCandidate ==
    (pc = "done" /\ report # <<>>) =>
        /\ Len(report[1].created) = Len(batch)
        /\ \A k \in 1..Len(batch) : batch[k] \in Range(report[1].created)

\* C10: at most max_indexes candidates are processed in one run, they are the
\* highest-ranked suggestions in rank order, and a candidate starts only after
\* the one before it has reached a terminal state.
C10_SerialAndBounded ==
    /\ Len(cstate) <= (IF args.max_indexes > 0 THEN args.max_indexes ELSE 0)
    /\ Len(batch) = Len(cstate)
    /\ \A k \in 1..Len(batch) : k <= Len(suggestions) /\ batch[k] = suggestions[k]
    /\ \A k \in 1..Len(cstate) :
          cstate[k] # "PENDING" => \A j \in 1..(k - 1) : cstate[j] \in Terminal
    /\ Cardinality({k \in 1..Len(cstate) : cstate[k] \in {"CHECK_EXISTS", "BUILDING"}}) <= 1

\* C11: a run with analyze only or with report-only (also with create given)
\* issues no check or build statement and leaves the catalog as it was; a run
\* with create has read the analysis before its first candidate and processes
\* at most max_indexes candidates.
C11_CommandSurface ==
    [][/\ ~CreateRequested =>
             /\ catalog' = catalog
             /\ \A st \in Range(statements') : st.op = "read"
       /\ (CreateRequested /\ pc' \in {"creating", "report"} /\ run' = run) =>
             /\ Len(statements') >= 3
             /\ \A p \in 1..3 : statements'[p].op = "read"
             /\ Cardinality({k \in 1..Len(cstate') : cstate'[k] # "PENDING"})
                   <= (IF args.max_indexes > 0 THEN args.max_indexes ELSE 0)]_vars

\* the candidates of the three strategies in insertion order, from the state
Unranked ==
    all_suggestions(query_patterns, metadata_rows, get_existing_indexes(catalog))

\* positions in the insertion order of the candidates of a ranked list
InsertedAt(unranked, ranked) ==
    [k \in 1..Len(ranked) |-> CHOOSE i \in 1..Len(unranked) : unranked[i] = ranked[k]]

\* C12: the returned list holds min(50, n) of the n candidates of the three
\* strategies, non-increasing by priority_score, equal scores in insertion
\* order, and every candidate left out has a score no greater than every kept
\* one (of equal scores the later inserted are left out).
C12_FinalRanking ==
    pc = "generated" =>
        LET unranked == Unranked
            at == InsertedAt(unranked, suggestions)
            kept == {at[k] : k \in 1..Len(suggestions)}
        IN  /\ Len(suggestions) = Min(Len(unranked), TopSuggestions)
            /\ \A k \in 1..Len(suggestions) : suggestions[k] \in Range(unranked)
            /\ \A k \in 1..(Len(suggestions) - 1) :
                  \/ suggestions[k].priority_score > suggestions[k + 1].priority_score
                  \/ /\ suggestions[k].priority_score = suggestions[k + 1].priority_score
                     /\ at[k] < at[k + 1]
            /\ \A i \in (1..Len(unranked)) \ kept :
                  \A k \in 1..Len(suggestions) :
                      \/ unranked[i].priority_score < suggestions[k].priority_score
                      \/ /\ unranked[i].priority_score = suggestions[k].priority_score
                         /\ i > at[k]

\* C12 witness: more than 50 candidates were generated, candidates of equal
\* score are on both sides of the cut, and a kept candidate was inserted after
\* one of lower score.
C12_Witness ==
    /\ pc = "generated"
    /\ Len(suggestions) = TopSuggestions
    /\ LET unranked == Unranked
           at == InsertedAt(unranked, suggestions)
           kept == {at[k] : k \in 1..Len(suggestions)}
       IN  /\ Len(unranked) > TopSuggestions
           /\ \E i \in (1..Len(unranked)) \ kept :
                 unranked[i].priority_score = suggestions[Len(suggestions)].priority_score
           /\ \E k \in 1..Len(suggestions) : \E i \in 1..(at[k] - 1) :
                 unranked[i].priority_score < suggestions[k].priority_score

\* C13: every FOREIGN KEY column of the metadata that is not a column of an
\* existing index of its table has, among the candidates before the ranking,
\* a foreign_key candidate on exactly that column.
C13_ForeignKeyCoverage ==
    pc = "generated" =>
        LET unranked == Unranked
        IN  \A r \in Range(metadata_rows) :
                LET table == TableKey(r.table_schema, r.table_name)
                IN  (r.column_type = "FOREIGN KEY" /\ ~ColumnIndexed(table, r.column_name))
                    => \E x \in Range(unranked) :
                          /\ x.type = "foreign_key"
                          /\ x.table = table
                          /\ x.columns = <<r.column_name>>

\* the single-column candidates in the order the loop appends them
SingleColumnGenerated ==
    single_column_suggestions(query_patterns, metadata_rows, get_existing_indexes(catalog))

\* C14: the single-column candidates are generated in an order that is
\* non-increasing by priority_score, and none is on a primary-key column of
\* its table.
C14_SingleColumnOrder ==
    pc = "generated" =>
        LET single == SingleColumnGenerated
        IN  /\ \A k \in 1..(Len(single) - 1) :
                  single[k].priority_score >= single[k + 1].priority_score
            /\ \A k \in 1..Len(single) :
                  single[k].columns[1] \notin Range(primary_keys(metadata_rows, single[k].table))

\* C15: every candidate of the three strategies has a non-empty column list
\* without repeated elements, and each of its columns is a column of the
\* metadata of the candidate's table.
C15_ColumnsExist ==
    pc = "generated" =>
        \A x \in Range(Unranked) :
            /\ Len(x.columns) >= 1
            /\ \A a, b \in 1..Len(x.columns) : a # b => x.columns[a] # x.columns[b]
            /\ \A a \in 1..Len(x.columns) :
                  \E r \in Range(metadata_rows) :
                      /\ TableKey(r.table_schema, r.table_name) = x.table
                      /\ r.column_name = x.columns[a]

\* C15 witness: the three strategies each emitted a candidate, and a pattern
\* of the composite strategy was left out for a column the table lacks.
C15_Witness ==
    /\ pc = "generated"
    /\ \A type \in {"single_column", "foreign_key", "composite"} :
          \E x \in Range(Unranked) : x.type = type
    /\ \E p \in Range(common_patterns) :
          /\ p.table \in Range(table_metadata_keys(metadata_rows))
          /\ \E a \in 1..Len(p.columns) :
                p.columns[a] \notin table_columns_of(metadata_rows, p.table)

\* the single-column candidates of REGULAR columns with accumulated usage
\* weight 100,000 and selectivity 0.02
Scenario1Candidates ==
    LET usage == column_usage(<<>>, query_patterns)
    IN  {x \in Range(Unranked) :
            /\ x.type = "single_column"
            /\ \E item \in Range(usage) :
                  /\ item.key = x.table \o Dot \o x.columns[1]
                  /\ item.weight = 100000
            /\ LET info == column_info(metadata_rows, x.table, x.columns[1])
               IN  info.column_type = "REGULAR" /\ info.selectivity = 20000}

\* C17 as stated: a REGULAR column with usage weight 100,000 and selectivity
\* 0.02 yields a single-column candidate of score 100,000 and benefit MEDIUM.
C17_Scenario1Medium ==
    pc = "generated" =>
        \A x \in Scenario1Candidates :
            x.priority_score = 2 * 100000 /\ x.estimated_benefit = "MEDIUM"

\* C17: a REGULAR column with usage weight 100,000 and selectivity 0.02
\* yields a single-column candidate of score 100,000 and benefit LOW: MEDIUM
\* needs a score above 100,000.
C17_Scenario1Low ==
    pc = "generated" =>
        \A x \in Scenario1Candidates :
            x.priority_score = 2 * 100000 /\ x.estimated_benefit = "LOW"

\* C17 witness: the candidate of the scenario was generated from the one query
\* with calls 500 and mean_time 200.
C17_Witness ==
    /\ pc = "generated"
    /\ query_patterns = <<QueryYear>>
    /\ Scenario1Candidates # {}

\* C16: every index of the effectiveness result is UNUSED if it has no scan,
\* else LOW_USAGE below 100 scans, else LOW_SELECTIVITY if tuples were read
\* and fewer than a tenth of them fetched, else GOOD; no tuples read never
\* gives LOW_SELECTIVITY.
C16_EffectivenessCascade ==
    pc = "effectiveness_done" =>
        /\ Len(effectiveness_df)
              = Len(SelectSeq(index_stats, LAMBDA r : r.schemaname \in AnalyzedSchemas))
        /\ \A k \in 1..Len(effectiveness_df) :
              LET r == effectiveness_df[k]
              IN  /\ r.scans = 0 => r.status = "UNUSED"
                  /\ (r.scans > 0 /\ r.scans < 100) => r.status = "LOW_USAGE"
                  /\ (r.scans >= 100 /\ r.tuples_read # 0
                        /\ 10 * r.tuples_fetched < r.tuples_read)
                         => r.status = "LOW_SELECTIVITY"
                  /\ (r.scans >= 100 /\ r.tuples_read # 0
                        /\ 10 * r.tuples_fetched >= r.tuples_read) => r.status = "GOOD"
                  /\ (r.scans >= 100 /\ r.tuples_read = 0) => r.status = "GOOD"

\* C16 witness: the result has an index without scans and without tuples
\* read, and one with 100 scans and no tuples read.
C16_Witness ==
    /\ pc = "effectiveness_done"
    /\ \E k \in 1..Len(effectiveness_df) :
          effectiveness_df[k].scans = 0 /\ effectiveness_df[k].tuples_read = 0
    /\ \E k \in 1..Len(effectiveness_df) :
          effectiveness_df[k].scans >= 100 /\ effectiveness_df[k].tuples_read = 0

\* C18: when connect or a read of the analysis raises, the run ends with exit
\* status 1, writes no report, has issued no check or build statement and
\* leaves the catalog as it was.
C18_ConnectivityFatal ==
    [][(pc \in {"start", "connected", "analyzed"} /\ pc' = "done") =>
           /\ exit_status' = 1
           /\ report' = <<>>
           /\ catalog' = catalog
           /\ created_indexes' = <<>>
           /\ \A st \in Range(statements') : st.op = "read"]_vars

\* C18 witness: a run with create requested ended at a failed read of the
\* analysis.
C18_Witness ==
    /\ pc = "done"
    /\ CreateRequested
    /\ cstate = <<>>
    /\ statements # <<>>
    /\ report = <<>>
    /\ exit_status = 1

\* C19: when the read of the index statistics raises in generate_report, the
\* report is still written with its effectiveness section marked Failed, the
\* created list and the catalog are as creation left them, and a run without
\* a failed candidate still exits with status 0.
C19_EffectivenessFailureNonFatal ==
    [][(pc = "report" /\ pc' = "done") =>
           /\ report' # <<>>
           /\ report'[1].effectiveness \in {"analysis", "Failed"}
           /\ report'[1].created = created_indexes
           /\ created_indexes' = created_indexes
           /\ cstate' = cstate
           /\ catalog' = catalog
           /\ FailedCandidates = {} => exit_status' = 0]_vars

\* C19 witness: a run that returned a candidate as created wrote its report
\* with the effectiveness section Failed and exited with status 0.
C19_Witness ==
    /\ pc = "done"
    /\ report # <<>>
    /\ report[1].effectiveness = "Failed"
    /\ report[1].created # <<>>
    /\ FailedCandidates = {}
    /\ exit_status = 0

\* C20: a candidate whose name another session created after the snapshot is
\* never CREATED by the run: once the live check finds the name the candidate
\* is skipped as existing without a build, a build issued after the check
\* fails, and the catalog holds one index of that name in the candidate's
\* schema.  The suggestions keep the candidate: they come from the snapshot.
C20_RaceOutcome ==
    \A k \in 1..Len(batch) :
        RaceKey(batch[k]) \in others =>
            /\ batch[k] \in Range(suggestions)
            /\ cstate[k] # "CREATED"
            /\ (\E st \in Range(StatementsOf(k)) : st.op = "check" /\ st.present) =>
                  /\ cstate[k] \in {"SKIPPED_EXISTS", "FAILED"}
                  /\ \A st \in Range(StatementsOf(k)) : st.op # "build"
            /\ (\E st \in Range(StatementsOf(k)) : st.op = "build" /\ st.present) =>
                  cstate[k] = "FAILED"
            /\ Cardinality({ix \in catalog :
                               /\ ix.indexname = batch[k].index_name
                               /\ ix.schemaname = SplitFirstDot(batch[k].table)[1]}) = 1

\* C20 witness: in one batch another session created the name of one
\* candidate before its check and the name of another between its check and
\* its build.
C20_Witness ==
    /\ CreationReturned
    /\ \E k \in 1..Len(batch) :
          /\ RaceKey(batch[k]) \in others
          /\ cstate[k] = "SKIPPED_EXISTS"
    /\ \E k \in 1..Len(batch) :
          /\ RaceKey(batch[k]) \in others
          /\ cstate[k] = "FAILED"
          /\ \E st \in Range(StatementsOf(k)) : st.op = "check" /\ ~st.present
          /\ \E st \in Range(StatementsOf(k)) : st.op = "build" /\ st.present

(***************************************************************************)
(* _create_index_suggestion on its own: one query on one column of a       *)
(* table, with weights, roles and statistics on both sides of every        *)
(* threshold                                                               *)
(***************************************************************************)
\* pg_stats.n_distinct of the scored column; the last value is below -1
ScoreNDistinctChoices ==
    {[kind |-> "null"],
     [kind |-> "negative", millionths |-> 5000],
     [kind |-> "negative", millionths |-> 10000],
     [kind |-> "negative", millionths |-> 100000],
     [kind |-> "negative", millionths |-> 100001],
     [kind |-> "count", n |-> 5],
     [kind |-> "count", n |-> 200000],
     [kind |-> "count", n |-> 2000000],
     [kind |-> "negative", millionths |-> 1500000]}

\* pg_stat_statements rows (calls > 10, mean_time > 100) on the scored column
ScoreQueryChoices ==
    {[calls |-> calls, mean_time |-> 200,
      query |-> SelectWhere(TableA, <<c_school_year_id>>)] :
         calls \in {250, 500, 501, 1000, 2500, 5000, 5001, 10000}}
    \cup {[calls |-> 1001, mean_time |-> 666,
           query |-> SelectWhere(TableA, <<c_school_year_id>>)]}

InitScore ==
    /\ metadata_rows \in
           {<<Row(s_rds, t_fact_k12_student_enrollments, c_school_year_id, role, nd),
              Row(s_rds, t_fact_k12_student_enrollments, c_dim_k12_school_id, "REGULAR",
                  [kind |-> "null"])>> :
                role \in {"FOREIGN KEY", "REGULAR"}, nd \in ScoreNDistinctChoices}
    /\ catalog = {}
    /\ query_patterns \in {<<q>> : q \in ScoreQueryChoices}
    /\ args = NoArgs
    /\ run = 1
    /\ prev_runs = <<>>
    /\ pc = "generate"
    /\ autocommit = FALSE
    /\ tx_status = "IDLE"
    /\ suggestions = <<>>
    /\ created_indexes = <<>>
    /\ batch = <<>>
    /\ cur = 0
    /\ cstate = <<>>
    /\ statements = <<>>
    /\ log = <<>>
    /\ report = <<>>
    /\ exit_status = "running"
    /\ index_stats = <<>>
    /\ effectiveness_df = <<>>
    /\ others = {}

SpecScore ==
    InitScore /\ [][NextGen]_vars

\* the single-column candidates of the suggestion list
SingleColumnCandidates ==
    {k \in 1..Len(suggestions) : suggestions[k].type = "single_column"}

\* the metadata of the column a candidate is about
CandidateInfo(k) ==
    column_info(metadata_rows, suggestions[k].table, suggestions[k].columns[1])

\* the usage weight of the column a candidate is about
CandidateWeight(k) ==
    LET usage == column_usage(<<>>, query_patterns)
        key == suggestions[k].table \o Dot \o suggestions[k].columns[1]
        hit == {j \in 1..Len(usage) : usage[j].key = key}
    IN  usage[CHOOSE j \in hit : TRUE].weight

\* C22: a single-column candidate's score is its weight, times 2.0 for a
\* foreign key, times 1.5 when selectivity > 0.10, times 0.5 when
\* selectivity < 0.01; its benefit is HIGH above 1,000,000, MEDIUM above
\* 100,000 and up to 1,000,000, LOW otherwise (scores compared in quarters)
C22_SingleColumnScoring ==
    pc = "generated" =>
        \A k \in SingleColumnCandidates :
            LET info == CandidateInfo(k)
                quarters == CandidateWeight(k)
                              * (IF info.column_type = "FOREIGN KEY" THEN 2 ELSE 1)
                              * (IF info.selectivity > 100000 THEN 3 ELSE 2)
                              * (IF info.selectivity < 10000 THEN 1 ELSE 2)
            IN  /\ 2 * suggestions[k].priority_score = quarters
                /\ suggestions[k].estimated_benefit =
                       (IF quarters > 4 * 1000000 THEN "HIGH"
                        ELSE IF quarters > 4 * 100000 THEN "MEDIUM"
                        ELSE "LOW")

\* a foreign key of weight 500,000 and selectivity 0.1 scores exactly
\* 1,000,000 and is MEDIUM
C22_Witness ==
    /\ pc = "generated"
    /\ \E k \in SingleColumnCandidates :
          /\ CandidateInfo(k).column_type = "FOREIGN KEY"
          /\ CandidateInfo(k).selectivity = 100000
          /\ CandidateWeight(k) = 500000
          /\ suggestions[k].priority_score = 2 * 1000000
          /\ suggestions[k].estimated_benefit = "MEDIUM"

\* C23: the selectivity compared against the scoring thresholds is 0.5 for a
\* null n_distinct, abs(v) for a negative one, min(v / 1,000,000, 1.0)
\* otherwise, and is never above 1.0 (in millionths)
C23_SelectivityAtMostOne ==
    pc = "generated" =>
        \A k \in SingleColumnCandidates :
            LET info == CandidateInfo(k)
                nd == info.n_distinct
            IN  /\ info.selectivity =
                       (IF nd.kind = "null" THEN 500000
                        ELSE IF nd.kind = "negative" THEN nd.millionths
                        ELSE IF nd.n < 1000000 THEN nd.n ELSE 1000000)
                /\ info.selectivity <= 1000000

\* the whole tokens of a text: its maximal runs of identifier characters
Tokens(text) ==
    LET starts == {a \in 1..Len(text) :
                      IdentChar(text[a]) /\ (a = 1 \/ ~IdentChar(text[a - 1]))}
        ends == {b \in 1..Len(text) :
                    IdentChar(text[b]) /\ (b = Len(text) \/ ~IdentChar(text[b + 1]))}
    IN  {SubSeq(text, a, CHOOSE b \in ends : b >= a /\ \A c \in ends : c >= a => b <= c) :
             a \in starts}

\* the columns of the metadata, by table
MetadataColumns ==
    {<<TableKey(r.table_schema, r.table_name), r.column_name>> : r \in Range(metadata_rows)}

\* C24: a column counts as already indexed exactly when an existing index of
\* its table has a definition that contains the column as a whole token,
\* compared without regard to case
C24_WholeTokenMatch ==
    pc = "generated" =>
        LET existing_indexes == get_existing_indexes(catalog)
        IN  \A tc \in MetadataColumns :
                column_already_indexed(tc[1], tc[2], existing_indexes)
                    <=> \E index \in existing_indexes :
                            /\ index.table = tc[1]
                            /\ \E token \in Tokens(index.definition) :
                                   Lower(token) = Lower(tc[2])

\* the existing indexes of a table, as the catalog holds them
IndexesOfTable(table) ==
    {ix \in catalog : /\ ix.schemaname \in AnalyzedSchemas
                      /\ TableKey(ix.schemaname, ix.tablename) = table}

\* an index's column set is a superset of the columns, in any order
CoversColumns(ix, columns) ==
    {Lower(columns[k]) : k \in 1..Len(columns)}
        \subseteq {Lower(ix.columns[k]) : k \in 1..Len(ix.columns)}

\* C25: a pattern becomes a composite candidate, with score 500,000, exactly
\* when its table and all of its columns are in the metadata and no existing
\* index of the table has a column set that is a superset of its columns
C25_CompositeStrategy ==
    pc = "generated" =>
        LET composites == {x \in Range(Unranked) : x.type = "composite"}
        IN  /\ \A x \in composites : x.priority_score = 2 * 500000
            /\ \A p \in Range(common_patterns) :
                   (\E x \in composites : x.table = p.table /\ x.columns = p.columns)
                       <=> /\ p.table \in Range(table_metadata_keys(metadata_rows))
                           /\ \A k \in 1..Len(p.columns) :
                                  p.columns[k] \in table_columns_of(metadata_rows, p.table)
                           /\ ~\E ix \in IndexesOfTable(p.table) :
                                  CoversColumns(ix, p.columns)

(***************************************************************************)
(* The usage loop of generate_index_suggestions on its own, over more      *)
(* query texts                                                             *)
(***************************************************************************)
MaxUsageQueries ==
    3

w_SELECT ==
    <<"S","E","L","E","C","T">>
w_FROM ==
    <<"F","R","O","M">>
w_WHERE ==
    <<"W","H","E","R","E">>

TableStaging ==
    TableKey(s_staging, t_k12_enrollment)

\* the year column three times: two conditions and the ORDER BY
QueryRepeated ==
    [calls |-> 30, mean_time |-> 150,
     query |-> <<w_select, w_star, w_from, TableA, w_where,
                 c_school_year_id, w_ge, w_param, w_and,
                 c_school_year_id, w_lt, w_param,
                 w_order, w_by, c_school_year_id>>]

\* a table without a schema
QueryUnqualified ==
    [calls |-> 40, mean_time |-> 250,
     query |-> SelectWhere(t_fact_k12_student_enrollments, <<c_school_year_id>>)]

\* a table of a schema that is not analyzed
QueryOtherSchema ==
    [calls |-> 60, mean_time |-> 110,
     query |-> SelectWhere(TableKey(s_public, t_fact_k12_student_enrollments),
                           <<c_school_year_id>>)]

\* no condition and no ORDER BY
QueryNoReference ==
    [calls |-> 70, mean_time |-> 120,
     query |-> <<w_select, w_star, w_from, TableA>>]

\* keywords in upper case
QueryUpper ==
    [calls |-> 80, mean_time |-> 130,
     query |-> <<w_SELECT, w_star, w_FROM, TableA, w_WHERE,
                 c_dim_k12_school_id, w_eq, w_param>>]

\* two tables, a plain column and a column qualified with a table name
QueryJoin ==
    [calls |-> 90, mean_time |-> 140,
     query |-> <<w_select, w_star, w_from, TableA, w_join, TableStaging, w_where,
                 c_school_year_id, w_eq, w_param, w_and,
                 TableKey(t_k12_enrollment, c_school_year), w_eq, w_param>>]

UsageQueryChoices ==
    {QueryYear, QueryRepeated, QueryUnqualified, QueryOtherSchema, QueryNoReference,
     QueryUpper, QueryJoin}

InitUsage ==
    /\ metadata_rows = MetadataRows("REGULAR", [kind |-> "null"], "REGULAR", FALSE, "absent")
    /\ catalog = {}
    /\ query_patterns \in UNION {[1..n -> UsageQueryChoices] : n \in 0..MaxUsageQueries}
    /\ args = NoArgs
    /\ run = 1
    /\ prev_runs = <<>>
    /\ pc = "generate"
    /\ autocommit = FALSE
    /\ tx_status = "IDLE"
    /\ suggestions = <<>>
    /\ created_indexes = <<>>
    /\ batch = <<>>
    /\ cur = 0
    /\ cstate = <<>>
    /\ statements = <<>>
    /\ log = <<>>
    /\ report = <<>>
    /\ exit_status = "running"
    /\ index_stats = <<>>
    /\ effectiveness_df = <<>>
    /\ others = {}

SpecUsage ==
    InitUsage /\ [][NextGen]_vars

\* the extraction of a query attributes the column to the table
Attributed(q, table, column) ==
    \E tc \in Range(extract_table_columns_from_query(q.query)) :
        tc.table = table /\ column \in Range(tc.columns)

\* calls x mean_time summed over the queries, from the k-th on, whose
\* extraction attributes the column to the table
RECURSIVE AttributedWeight(_, _, _)
AttributedWeight(k, table, column) ==
    IF k > Len(query_patterns) THEN 0
    ELSE (IF Attributed(query_patterns[k], table, column)
          THEN query_patterns[k].calls * query_patterns[k].mean_time
          ELSE 0)
            + AttributedWeight(k + 1, table, column)

\* the query names, after FROM or JOIN, a table qualified with a schema
NamesQualifiedTable(q, table) ==
    \E i \in 1..(Len(q.query) - 1) :
        /\ Lower(q.query[i]) \in {w_from, w_join}
        /\ Lower(q.query[i + 1]) = table

\* the workload without its k-th query
WithoutQuery(k) ==
    SubSeq(query_patterns, 1, k - 1) \o SubSeq(query_patterns, k + 1, Len(query_patterns))

\* C26: after the workload is processed, the usage of table.column is the
\* sum of calls x mean_time over the queries whose extraction attributes the
\* column to the table, each query once; every key is on a table that a
\* query names with an analyzed schema; a query that names no such table
\* leaves the usage as it is without it
C26_UsageAccumulation ==
    pc = "generated" =>
        LET usage == column_usage(<<>>, query_patterns)
        IN  /\ \A a, b \in 1..Len(usage) : usage[a].key = usage[b].key => a = b
            /\ \A item \in Range(usage) :
                   LET table == RSplitLastDot(item.key)[1]
                       column == RSplitLastDot(item.key)[2]
                   IN  /\ item.weight = AttributedWeight(1, table, column)
                       /\ SplitFirstDot(table)[1] \in AnalyzedSchemas
                       /\ \E q \in Range(query_patterns) : NamesQualifiedTable(q, table)
            /\ \A q \in Range(query_patterns) :
                   \A tc \in Range(extract_table_columns_from_query(q.query)) :
                       \A column \in Range(tc.columns) :
                           \E item \in Range(usage) : item.key = tc.table \o Dot \o column
            /\ \A k \in 1..Len(query_patterns) :
                   (~\E schema \in AnalyzedSchemas, i \in 1..(Len(query_patterns[k].query) - 1) :
                        /\ Lower(query_patterns[k].query[i]) \in {w_from, w_join}
                        /\ SplitFirstDot(Lower(query_patterns[k].query[i + 1]) \o Dot)[1] = schema
                        /\ \E j \in 1..Len(query_patterns[k].query[i + 1]) :
                               query_patterns[k].query[i + 1][j] = ".")
                       => column_usage(<<>>, WithoutQuery(k)) = usage

\* C26 witness: a workload of a query on the year, a query on an unqualified
\* table and a query that names the year three times gives the year column
\* the usage 500 x 200 + 30 x 150, and nothing else
C26_Witness ==
    /\ pc = "generated"
    /\ query_patterns = <<QueryYear, QueryUnqualified, QueryRepeated>>
    /\ column_usage(<<>>, query_patterns)
           = <<[key |-> TableA \o Dot \o c_school_year_id, weight |-> 104500]>>
    /\ \E k \in SingleColumnCandidates :
          /\ suggestions[k].columns = <<c_school_year_id>>
          /\ suggestions[k].priority_score = 3 * 104500

\* C27: when _create_single_index has returned for a candidate, with any
\* outcome, the connection has no open transaction before the next
\* candidate's check starts
C27_NoOpenTransactionAfterCandidate ==
    (/\ pc = "creating"
     /\ cur > 1
     /\ (cur > Len(batch) \/ cstate[cur] = "PENDING"))
        => tx_status = "IDLE"

\* C28: every candidate in the created list of create_indexes has, in the
\* live catalog, an index of its name on its own schema-qualified table
C28_CreatedOnOwnTable ==
    \A x \in Range(created_indexes) :
        \E ix \in catalog :
            /\ ix.indexname = x.index_name
            /\ TableKey(ix.schemaname, ix.tablename) = x.table

\* the benefit the thresholds give a score (in halves)
ThresholdBenefit(score_halves) ==
    IF score_halves > 2 * 1000000 THEN "HIGH"
    ELSE IF score_halves > 2 * 100000 THEN "MEDIUM"
    ELSE "LOW"

\* LOW < MEDIUM < HIGH
BenefitRank(benefit) ==
    CASE benefit = "LOW" -> 1 [] benefit = "MEDIUM" -> 2 [] benefit = "HIGH" -> 3

\* C29 as stated: every candidate of the ranked list, of any type, has the
\* benefit the thresholds give its score, and no candidate has a lower
\* benefit than a candidate below it.
C29_BenefitAgreesWithThresholds ==
    pc = "generated" =>
        /\ \A k \in 1..Len(suggestions) :
               suggestions[k].estimated_benefit = ThresholdBenefit(suggestions[k].priority_score)
        /\ \A a, b \in 1..Len(suggestions) :
               a < b => BenefitRank(suggestions[a].estimated_benefit)
                            >= BenefitRank(suggestions[b].estimated_benefit)

\* C29: a foreign-key candidate has score 1,000,000 and benefit HIGH; every
\* other candidate of the ranked list has the benefit the thresholds give its
\* score; a candidate has a lower benefit than a candidate below it only when
\* it is MEDIUM with score exactly 1,000,000 and the other is a foreign-key
\* candidate
C29_BenefitByType ==
    pc = "generated" =>
        /\ \A k \in 1..Len(suggestions) :
               IF suggestions[k].type = "foreign_key"
               THEN /\ suggestions[k].priority_score = 2 * 1000000
                    /\ suggestions[k].estimated_benefit = "HIGH"
               ELSE suggestions[k].estimated_benefit
                        = ThresholdBenefit(suggestions[k].priority_score)
        /\ \A a, b \in 1..Len(suggestions) :
               (/\ a < b
                /\ BenefitRank(suggestions[a].estimated_benefit)
                       < BenefitRank(suggestions[b].estimated_benefit))
                   => /\ suggestions[b].type = "foreign_key"
                      /\ suggestions[a].priority_score = 2 * 1000000
                      /\ suggestions[a].estimated_benefit = "MEDIUM"

\* C29 witness: the list holds the three types, and a single-column candidate
\* of score 1,000,000, MEDIUM, stands above the foreign-key candidate, HIGH
C29_Witness ==
    /\ pc = "generated"
    /\ \A type \in {"single_column", "foreign_key", "composite"} :
          \E k \in 1..Len(suggestions) : suggestions[k].type = type
    /\ \E a, b \in 1..Len(suggestions) :
          /\ a < b
          /\ suggestions[a].type = "single_column"
          /\ suggestions[a].priority_score = 2 * 1000000
          /\ suggestions[a].estimated_benefit = "MEDIUM"
          /\ suggestions[b].type = "foreign_key"
          /\ suggestions[b].estimated_benefit = "HIGH"

\* the reads of the analysis phase issued so far in the run: the reads up to
\* the end of creation (generate_report issues its read after them)
AnalysisReadsIssued ==
    Cardinality({k \in 1..Len(statements) : statements[k].op = "read"})

\* C30: in one run, for every combination of the flags and every analysis
\* result, the three reads of the analysis are executed at most once, and the
\* list create_indexes receives is the list that is reported
C30_AnalysisOncePerRun ==
    /\ pc \in {"analyzed", "creating", "report"} => AnalysisReadsIssued <= 3
    /\ (pc = "done" /\ report # <<>> /\ CreateRequested) =>
           /\ batch = slice_to(suggestions, args.max_indexes)
           /\ report[1].suggestions = Len(suggestions)

====
